---- MODULE Spec2Model ----
(***************************************************************************)
(* Two-wheel chassis controller firmware: command arbitration (radio,      *)
(* host, failsafe), host heartbeat liveness and the persistent parameter   *)
(* file on SPI NOR flash.                                                  *)
(*                                                                         *)
(* Floats are carried as fixed-point integers in thousandths (Scale).      *)
(* 32-bit words are carried as the 4-tuple of their bytes.                 *)
(***************************************************************************)
EXTENDS Integers, Naturals, Sequences, FiniteSets, TLC

VARIABLES
    build,              \* which supervisor the firmware image starts
    \* ---- Devices/rc_receiver.c
    receiverValue,      \* static ReceiverValues_t receiverValue
    frameDecoded,       \* history: a frame has passed S_BUS_Parse since boot
    \* ---- ROS_Interface/ros_subscriber_cmd_vel.c
    cmdVel,             \* static float velocity, omega
    lastAccepted,       \* history: (v, w) of the latest accepted CMD_VELOCITY
    \* ---- MotionControl/chassis_motion.c
    maxVelocity,        \* ThreadChassisMotion local, read once at thread start
    maxOmega,
    isAutoMode,         \* static bool isAutoMode (the autoMode latch)
    chassisCmd,         \* last (v, w) handed to ChassisMotionX_SetMotion
    tick,               \* history: what the latest supervisor tick did
    \* ---- MotionControl/motion_control.c
    mc,                 \* statics isAutoPilotMode, velocity, omega, remote*
    mcFlags,            \* thread flags of the MotionControl_Process thread
    mcCmd,              \* last (v, w) handed to the chassis by the process
    mcTick,             \* history: what the latest FLAG_MOTION_MOVE step did
    \* ---- kernel tick, ROS_Interface/ros_heartbeat.c, ros_interface.c
    now,                    \* osKernelGetTickCount(), ms since ROS_Heartbeat_Init
    lastHeartbeatTime,      \* static uint32_t lastHeartbeatTime
    isUpperMachineAlive,    \* static bool isUpperMachineAlive (host-alive)
    resetRequestCallback,   \* static hook pointer: "NULL" or "hook"
    hbCheckedAt,            \* instant of the latest HeartBeatTimeoutCallback run
    hbReceived,             \* history: a heartbeat has been accepted since boot
    hbCheck,                \* history: what the latest timeout check saw
    hbReply,                \* history: what the latest heartbeat handler sent
    \* ---- Devices/w25qxx.c, DataStore/store_file.c, DataStore/data_store.c
    flash,                  \* the bytes of the external flash, by address
    paramFile,              \* static StoreFile_t paramFile
    dataStore,              \* static struct dataStore
    dsEventFlags,           \* dataStoreEventFlags
    records,                \* history: records committed through the file interface
    committed,              \* history: the file state at the latest commit
    filePhase,              \* where the client of the file interface stands
    stream,                 \* which data stream that client writes, 0 = none yet
    fileBoot,               \* history: the latest step was a fresh StoreFile_Init
    saved,                  \* history: the record of the latest SaveDataToFile
    saves,                  \* history: how many times SaveDataToFile completed
    dsBoot,                 \* history: the latest step was a fresh DataStore_Init
    dsThread,               \* where DataStoreThread stands, and the record it checked
    \* ---- faults injected into the flash, and probes of the file interface
    corrupted,              \* history: the FDB slot whose fdbCRC was damaged, or NoSlot
    probe,                  \* history: the write and read-back at the end of the data area
    \* ---- MiddleWare/udp.c, ROS_Interface/ros_interface.c
    receivedAddr,           \* callbackEntries[i].receivedAddr of the ROS socket
    udpPending,             \* the datagram UdpCallback is handling
    rosQueue,               \* appRosInterfaceMsgQueueId: ROS_Interface_CommandMessage_t items
    incomingCallbackEntrys, \* static table of incoming handlers
    feedbackCallbackEntrys, \* static table of feedback producers
    lastSource,             \* history: the source of the latest datagram on the wire
    paramsArrived,          \* history: the latest well-formed CMD_PARAMETERS that arrived
    sinceFire,              \* history: egress ticks since each producer last ran
    rosStep,                \* history: what the latest step of the interface did
    \* ---- Algorithm/pid.c, Devices/dc_motor.c
    pid,                    \* static PID_t pid[TOTAL_MOTOR_NUMBER]: object, sumError, lastError
    measuredAngularSpeed,   \* static float measuredAngularSpeed[TOTAL_MOTOR_NUMBER]
    pwmOut,                 \* static int32_t pwmOut[TOTAL_MOTOR_NUMBER]
    pwmOutMean,             \* static int32_t pwmOutMean[TOTAL_MOTOR_NUMBER]
    periods,                \* history: control periods elapsed
    driveStep,              \* history: what the latest step of the drive did
    \* ---- System/mem_pool.c
    memPool,                \* memPool[i]: block size and the free blocks of its kernel pool
    poolStep,               \* history: what the latest call into the pool did
    \* ---- where the tasks stand inside the handlers taken one access at a time
    hbTimer,                \* HeartBeatTimeoutCallback: its local timeInterval
    rcTask,                 \* RC_Receiver_Process: the frame taken and the fields stored
    rcReader,               \* Receiver_Read: the fields copied into the caller's snapshot
    cvTask,                 \* CmdVelCallback: the message and the statics stored
    cvReader                \* ROS_SubscriberCmdVel_ReadVelocity: the values copied out

motionVars == <<build, receiverValue, frameDecoded, cmdVel, lastAccepted, maxVelocity,
                maxOmega, isAutoMode, chassisCmd, tick, mc, mcFlags, mcCmd, mcTick>>

hbVars == <<now, lastHeartbeatTime, isUpperMachineAlive, resetRequestCallback,
            hbCheckedAt, hbReceived, hbCheck, hbReply>>

storeVars == <<flash, paramFile, dataStore, dsEventFlags, records, committed,
               filePhase, stream, fileBoot, saved, saves, dsBoot, dsThread>>

probeVars == <<corrupted, probe>>

rosVars == <<receivedAddr, udpPending, rosQueue, incomingCallbackEntrys, feedbackCallbackEntrys,
             lastSource, paramsArrived, sinceFire, rosStep>>

deviceVars == <<pid, measuredAngularSpeed, pwmOut, pwmOutMean, periods, driveStep,
                memPool, poolStep>>

taskVars == <<hbTimer, rcTask, rcReader, cvTask, cvReader>>

vars == <<motionVars, hbVars, storeVars, probeVars, rosVars, deviceVars, taskVars>>

(***************************************************************************)
(* Fixed point                                                             *)
(***************************************************************************)
Scale == 1000

\* float product a * b of two fixed-point values
MulF(a, b) == (a * b) \div Scale

\* float quotient (float)a / (float)b of two integers, as fixed point
DivF(a, b) == (a * Scale) \div b

(***************************************************************************)
(* Program constants                                                       *)
(***************************************************************************)
DEFAULT_MAX_VELOCITY == 1000
DEFAULT_MAX_OMEGA == 6283
MAX_RECEIVER_CHANNEL_SHIFT == 671
MID_RECEIVER_CHANNEL_VALUE == 1024
S_BUS_HEADER == 15
ROS_CMD_VELOCITY == 1001
ROS_CMD_MOTION == 1002
SizeofVelocityMessage == 20
SizeofMotionMessage == 16
ROS_CMD_SET_IO == 1003
ROS_CMD_READ_IO == 1004
ROS_CMD_PARAMETERS == 1005
ROS_HEART_BEAT == 1009
SizeofParametersMessage == 52
SizeofMessageType == 4
SizeofSetIoMessage == 20
ROS_MAX_CMD_MESSAGE_SIZE == 20
ROS_INTERFACE_Q_LEN == 16
MAX_INCOMING_CALLBACKS == 8
MAX_FEEDBACK_CALLBACKS == 8
CHECK_FEEDBACK_PERIOD == 10
DEFAULT_PUBLISH_INTERVAL_MS == 100
PUBLISH_INTERVAL == 20
SizeofHeartBeatMessage == 12
HEARTBEAT_TIMEOUT_PERIOD == 200
HEARTBEAT_CHECK_PERIOD == 10
CHASSIS_MOTION_PERIOD == 20
SECTOR_SIZE == 4096
ERASED_BYTE == 255
EXT_FLASH_PARAMETER_FILE_ADDRESS == 4194304
EXT_FLASH_PARAMETER_FILE_SIZE == 1048576
FILE_DESCRIPTION_AREA_SIZE == 4096
SizeofFileDescriptionBlock == 20
MEM_BLOCK_SIZE == 2048
SizeofDataStore == 52

(***************************************************************************)
(* Bounds                                                                  *)
(***************************************************************************)
\* the clock stops here
MaxTick == 225
\* how long before the wrap of the tick counter the run near the wrap starts (ms)
WrapLead == 100
\* in SpecHost the host sends nothing after this instant
HostSilentFrom == 2
\* bytes of the data area, from its start, that the flash model holds
DataWindow == 52
\* records the client of the file interface commits
MaxRecords == 206
\* records already committed on the used flash the file interface may start from
PreRecords == 200
\* completed saves after which no parameter is set and no save is requested
MaxSaves == 3
\* records the client commits on the flash whose description area gets damaged
MaxCorruptRecords == 6
\* datagrams the ingress queue holds before the host waits for the ingress task
MaxQueued == 1
\* producers registered with the egress task by its clients
MaxProducers == 2
\* how far before the end of the data area a write may start
MaxTail == 4
\* bytes written there in one call
MaxWrapWrite == 8
\* data streams the client of the file interface chooses from
Streams == {1, 2}

(***************************************************************************)
(* Inputs                                                                  *)
(***************************************************************************)
\* raw 11-bit channel values used for channels 1 and 3
ChannelChoices == { MID_RECEIVER_CHANNEL_VALUE - MAX_RECEIVER_CHANNEL_SHIFT,
                    MID_RECEIVER_CHANNEL_VALUE + MAX_RECEIVER_CHANNEL_SHIFT }

\* S-Bus frames: header byte, channels 1, 3, 5 and the two flag bits of byte 23
Frames == [ header : {S_BUS_HEADER},
            ch1 : ChannelChoices, ch3 : ChannelChoices, ch5 : { 0, MID_RECEIVER_CHANNEL_VALUE + 1 },
            failsafe : {0, 1}, frameLost : {0, 1} ]
          \cup
          { [ header |-> 0, ch1 |-> MID_RECEIVER_CHANNEL_VALUE - MAX_RECEIVER_CHANNEL_SHIFT,
              ch3 |-> MID_RECEIVER_CHANNEL_VALUE - MAX_RECEIVER_CHANNEL_SHIFT,
              ch5 |-> 0, failsafe |-> 0, frameLost |-> 0 ] }

\* CMD_VELOCITY datagrams as the handler receives them
VelocityMessages ==
    [ size : {SizeofVelocityMessage}, messageType : {ROS_CMD_VELOCITY},
      velocity : {0, 500}, omega : {0, -1000} ]
    \cup
    { [ size |-> SizeofMotionMessage, messageType |-> ROS_CMD_VELOCITY,
        velocity |-> 500, omega |-> -1000 ],
      [ size |-> SizeofVelocityMessage, messageType |-> ROS_CMD_MOTION,
        velocity |-> 500, omega |-> -1000 ] }

\* HEART_BEAT datagrams as the handler receives them
HeartBeatMessages ==
    [ size : {SizeofHeartBeatMessage}, messageType : {ROS_HEART_BEAT},
      messageID : {7}, reset : {0, 1} ]
    \cup
    { [ size |-> SizeofMotionMessage, messageType |-> ROS_HEART_BEAT,
        messageID |-> 7, reset |-> 0 ],
      [ size |-> SizeofHeartBeatMessage, messageType |-> ROS_CMD_MOTION,
        messageID |-> 7, reset |-> 0 ] }

(***************************************************************************)
(* Protocol/s_bus.c, Devices/rc_receiver_wfly.c                            *)
(***************************************************************************)
\* variant: the header byte is not looked at
S_BUS_Parse_AnyHeader(frame) ==
    [ok |-> TRUE,
     channelValue |-> [i \in {0, 2, 4} |->
                         CASE i = 0 -> frame.ch1
                           [] i = 2 -> frame.ch3
                           [] i = 4 -> frame.ch5],
     flagBit_Failsafe |-> frame.failsafe,
     flagBit_FrameLost |-> frame.frameLost]

\* S_BUS_Parse: 0 on a wrong header, else the channels and flag bits
S_BUS_Parse(frame) ==
    IF frame.header # S_BUS_HEADER
    THEN [ok |-> FALSE]
    ELSE [ok |-> TRUE,
          channelValue |-> [i \in {0, 2, 4} |->
                              CASE i = 0 -> frame.ch1
                                [] i = 2 -> frame.ch3
                                [] i = 4 -> frame.ch5],
          flagBit_Failsafe |-> frame.failsafe,
          flagBit_FrameLost |-> frame.frameLost]

Get_WFLY_Receiver_Values(ch) ==
    [ steering |-> DivF(MID_RECEIVER_CHANNEL_VALUE - ch.channelValue[0],
                        MAX_RECEIVER_CHANNEL_SHIFT),
      throttle |-> DivF((MID_RECEIVER_CHANNEL_VALUE + MAX_RECEIVER_CHANNEL_SHIFT)
                            - ch.channelValue[2],
                        2 * MAX_RECEIVER_CHANNEL_SHIFT),
      autoMode |-> ch.channelValue[4] > MID_RECEIVER_CHANNEL_VALUE,
      failSafe |-> ch.flagBit_Failsafe = 1,
      frameLost |-> ch.flagBit_FrameLost = 1 ]

\* Receiver_Read: the snapshot a caller gets
Receiver_Read == receiverValue

(***************************************************************************)
(* MotionControl/motion_control.c                                          *)
(***************************************************************************)
\* ReceiverCallback: statics after the callback ran on a decoded frame
ReceiverCallback(m, rv, maxV, maxW) ==
    IF rv.failSafe \/ rv.frameLost
    THEN m
    ELSE [m EXCEPT !.isAutoPilotMode = rv.autoMode,
                   !.remoteVelocity = MulF(rv.throttle, maxV),
                   !.remoteOmega = MulF(rv.steering, maxW)]

\* variant: the parameters reach the statics
MotionControl_MoveStatics_Assigning(m, v, w) ==
    [m EXCEPT !.velocity = v, !.omega = w]

\* MotionControl_Move: assigns its parameters to themselves; the statics
\* velocity and omega keep their values
MotionControl_MoveStatics(m, v, w) == m

(***************************************************************************)
(* ROS_Interface/ros_subscriber_cmd_vel.c                                  *)
(***************************************************************************)
\* variant: the message type is not checked
CmdVelCallbackStatics_NoTypeCheck(cur, msg) ==
    IF msg.size # SizeofVelocityMessage THEN cur
    ELSE [velocity |-> msg.velocity, omega |-> msg.omega]

\* CmdVelCallback: the statics after the handler ran on msg
CmdVelCallbackStatics(cur, msg) ==
    IF msg.size # SizeofVelocityMessage THEN cur
    ELSE IF msg.messageType # ROS_CMD_VELOCITY THEN cur
    ELSE [velocity |-> msg.velocity, omega |-> msg.omega]

\* ROS_SubscriberCmdVel_ReadVelocity
ROS_SubscriberCmdVel_ReadVelocity == <<cmdVel.velocity, cmdVel.omega>>

(***************************************************************************)
(* MotionControl/chassis_motion.c                                          *)
(***************************************************************************)
\* variant: the latch is tested before the radio snapshot
SupervisorStep_HostFirst(snap, latch, host, maxV, maxW) ==
    IF latch
    THEN [ latch |-> TRUE, calls |-> << host >>, src |-> "HOST" ]
    ELSE IF ~snap.frameLost /\ ~snap.failSafe /\ ~snap.autoMode
    THEN [ latch |-> FALSE,
           calls |-> << <<MulF(snap.throttle, maxV), MulF(snap.steering, maxW)>> >>,
           src |-> "RADIO" ]
    ELSE [ latch |-> FALSE, calls |-> << >>, src |-> "NONE" ]

\* variant: in auto mode the steering stick still sets the yaw rate
SupervisorStep_MixedAxes(snap, latch, host, maxV, maxW) ==
    IF ~snap.frameLost /\ ~snap.failSafe /\ ~snap.autoMode
    THEN [ latch |-> FALSE,
           calls |-> << <<MulF(snap.throttle, maxV), MulF(snap.steering, maxW)>> >>,
           src |-> "RADIO" ]
    ELSE IF latch
    THEN [ latch |-> TRUE,
           calls |-> << <<host[1], MulF(snap.steering, maxW)>> >>, src |-> "HOST" ]
    ELSE [ latch |-> FALSE, calls |-> << >>, src |-> "NONE" ]

\* one pass of the periodic branch of ThreadChassisMotion: the latch
\* afterwards, the ChassisMotionX_SetMotion calls made, and which source fed
\* them
SupervisorStep(snap, latch, host, maxV, maxW) ==
    IF ~snap.frameLost /\ ~snap.failSafe /\ ~snap.autoMode
    THEN [ latch |-> FALSE,
           calls |-> << <<MulF(snap.throttle, maxV), MulF(snap.steering, maxW)>> >>,
           src |-> "RADIO" ]
    ELSE IF latch
    THEN [ latch |-> TRUE, calls |-> << host >>, src |-> "HOST" ]
    ELSE [ latch |-> FALSE, calls |-> << >>, src |-> "NONE" ]

NoTick == [ran |-> FALSE]

(***************************************************************************)
(* ROS_Interface/ros_heartbeat.c, ros_interface.c                          *)
(***************************************************************************)
\* the size and type checks at the head of HeartBeatCallback
\* variant: the size of the request is not compared with the record
HeartBeatAccepted_AnySize(msg) ==
    msg.messageType = ROS_HEART_BEAT

\* the checks at the head of HeartBeatCallback
HeartBeatAccepted(msg) ==
    msg.size = SizeofHeartBeatMessage /\ msg.messageType = ROS_HEART_BEAT

\* variant: the hook runs, the reset flag is not echoed
HeartBeatReply_NoEcho(msg, hook) ==
    IF msg.reset # 0 /\ hook # "NULL"
    THEN [ sent |-> TRUE, hookCalls |-> 1, reset |-> 0, success |-> 1,
           messageID |-> 0, requested |-> msg.reset ]
    ELSE [ sent |-> TRUE, hookCalls |-> 0, reset |-> 0, success |-> 1,
           messageID |-> msg.messageID, requested |-> msg.reset ]

\* the acknowledgement HeartBeatCallback builds, whether the hook ran, and
\* the reset field of the request it answers
HeartBeatReply(msg, hook) ==
    IF msg.reset # 0 /\ hook # "NULL"
    THEN [ sent |-> TRUE, hookCalls |-> 1, reset |-> 1, success |-> 1,
           messageID |-> 0, requested |-> msg.reset ]
    ELSE [ sent |-> TRUE, hookCalls |-> 0, reset |-> 0, success |-> 1,
           messageID |-> msg.messageID, requested |-> msg.reset ]

\* variant: the comparison is strict
HeartBeatTimedOut_Strict(tickCount, last) ==
    tickCount - last > HEARTBEAT_TIMEOUT_PERIOD

\* variant: the interval is taken on the unsigned tick values without the
\* reduction modulo 2^32, so it is negative once the counter has wrapped
\* after the last heartbeat (ticks before the wrap are held as tick - 2^32)
HeartBeatTimedOut_NoWrap(tickCount, last) ==
    IF tickCount >= 0 /\ last < 0 THEN FALSE
    ELSE tickCount - last >= HEARTBEAT_TIMEOUT_PERIOD

\* HeartBeatTimeoutCallback: timeInterval >= HEARTBEAT_TIMEOUT_PERIOD
HeartBeatTimedOut(tickCount, last) ==
    tickCount - last >= HEARTBEAT_TIMEOUT_PERIOD

(***************************************************************************)
(* Bytes and 32-bit words.  A uint32_t is the 4-tuple of its bytes in      *)
(* memory order (little-endian), so that 0xFFFFFFFF and 0xA5A55A5A need no *)
(* integer wider than the checker's.                                       *)
(***************************************************************************)
RECURSIVE AndBits(_, _, _)
AndBits(a, b, n) ==
    IF n = 0 THEN 0
    ELSE ((a % 2) * (b % 2)) + 2 * AndBits(a \div 2, b \div 2, n - 1)

RECURSIVE XorBits(_, _, _)
XorBits(a, b, n) ==
    IF n = 0 THEN 0
    ELSE ((a + b) % 2) + 2 * XorBits(a \div 2, b \div 2, n - 1)

Xor8Table == [a \in 0..255 |-> [b \in 0..255 |-> XorBits(a, b, 8)]]

Xor8(a, b) == Xor8Table[a][b]

\* the bytes of a uint32_t holding n
U32(n) == << n % 256, (n \div 256) % 256, (n \div 65536) % 256,
             (n \div 16777216) % 256 >>

\* the number a uint32_t below 2^31 holds
U32Value(w) == w[1] + 256 * w[2] + 65536 * w[3] + 16777216 * w[4]

(***************************************************************************)
(* Algorithm/crc32: MSB-first CRC-32, polynomial 0x04C11DB7, the caller    *)
(* passes the running value, no final inversion                            *)
(***************************************************************************)
CRC32_INITIAL_VALUE == <<255, 255, 255, 255>>

ShiftLeft1(w) ==
    << (w[1] * 2) % 256,
       ((w[2] * 2) % 256) + (w[1] \div 128),
       ((w[3] * 2) % 256) + (w[2] \div 128),
       ((w[4] * 2) % 256) + (w[3] \div 128) >>

XorWord(a, b) ==
    << XorBits(a[1], b[1], 8), XorBits(a[2], b[2], 8),
       XorBits(a[3], b[3], 8), XorBits(a[4], b[4], 8) >>

RECURSIVE Crc32Shift(_, _)
Crc32Shift(w, n) ==
    IF n = 0 THEN w
    ELSE Crc32Shift(IF w[4] >= 128 THEN XorWord(ShiftLeft1(w), (<<183, 29, 193, 4>>))
                    ELSE ShiftLeft1(w), n - 1)

Crc32Table == [i \in 0..255 |-> Crc32Shift(<<0, 0, 0, i>>, 8)]

Crc32Byte(crc, byte) ==
    LET t == Crc32Table[Xor8(crc[4], byte)]
    IN  << t[1], Xor8(crc[1], t[2]), Xor8(crc[2], t[3]), Xor8(crc[3], t[4]) >>

\* the bytes i.. of input run through the register, one after the other; each
\* running value is computed before the next byte is taken
RECURSIVE Crc32From(_, _, _)
Crc32From(crc, input, i) ==
    IF i > Len(input) THEN crc
    ELSE LET next == Crc32Byte(crc, input[i])
         IN  IF next[1] \in 0..255 THEN Crc32From(next, input, i + 1) ELSE next

\* uint32_t Crc32(uint32_t crc, const void* input, uint32_t len)
Crc32(crc, input) == Crc32From(crc, input, 1)

(***************************************************************************)
(* Devices/w25qxx.c: NOR flash.  The model holds the file description      *)
(* sector of the parameter file and the first DataWindow bytes after it.   *)
(***************************************************************************)
\* the sectors held, by their first address
FlashSectors ==
    { EXT_FLASH_PARAMETER_FILE_ADDRESS,
      EXT_FLASH_PARAMETER_FILE_ADDRESS + SECTOR_SIZE }

ErasedFdaSector == [ i \in 1..SECTOR_SIZE |-> ERASED_BYTE ]

ErasedDataSector == [ i \in 1..DataWindow |-> ERASED_BYTE ]

\* EraseSector(sectorAddr): every byte of the sector reads 0xFF afterwards; of
\* the first sector of the data area only the first DataWindow bytes are held
ErasedSector(s) ==
    IF s = EXT_FLASH_PARAMETER_FILE_ADDRESS + FILE_DESCRIPTION_AREA_SIZE
    THEN ErasedDataSector
    ELSE ErasedFdaSector

ErasedFlash == [ s \in FlashSectors |-> ErasedSector(s) ]

SectorOf(address) == address - (address % SECTOR_SIZE)

\* the sectors Write erases before programming: the one the write starts in
\* when it starts on its first byte, and every further one it reaches
SectorsErased(address, size) ==
    { s \in { SectorOf(address) + k * SECTOR_SIZE :
                k \in 0..((SectorOf(address + size - 1) - SectorOf(address))
                            \div SECTOR_SIZE) } :
        \/ s = address
        \/ s >= SectorOf(address) + SECTOR_SIZE }

\* ProgramPage over the bytes of one sector: programming can only clear bits
ProgramSector(sec, off, bytes) ==
    SubSeq(sec, 1, off)
    \o [ i \in 1..Len(bytes) |->
            IF sec[off + i] = 255 THEN bytes[i]
            ELSE IF bytes[i] = 255 THEN sec[off + i]
            ELSE AndBits(sec[off + i], bytes[i], 8) ]
    \o SubSeq(sec, off + Len(bytes) + 1, Len(sec))

\* the bytes of sector s after buffer was programmed at address
ProgramInto(sec, s, buffer, address) ==
    LET last == address + Len(buffer) - 1
        lo == IF address > s THEN address ELSE s
        hi == IF last < s + SECTOR_SIZE - 1 THEN last ELSE s + SECTOR_SIZE - 1
    IN  IF lo > hi THEN sec
        ELSE ProgramSector(sec, lo - s,
                           SubSeq(buffer, lo - address + 1, hi - address + 1))

\* Write(buffer, address, size): erase, then page-program
W25QXX_Write(fl, buffer, address) ==
    LET erased == SectorsErased(address, Len(buffer))
    IN  [ s \in DOMAIN fl |->
            ProgramInto(IF s \in erased THEN ErasedSector(s) ELSE fl[s],
                        s, buffer, address) ]

\* Read(buffer, addr, size)
W25QXX_Read(fl, addr, size) ==
    [ i \in 1..size |->
        fl[SectorOf(addr + i - 1)][addr + i - 1 - SectorOf(addr + i - 1) + 1] ]

(***************************************************************************)
(* DataStore/store_file.c                                                  *)
(***************************************************************************)
FILE_DESCRIPTION_BLOCK_HEADER == <<90, 90, 165, 165>>

\* the bytes of a FileDescriptionBlock_t
FdbBytes(fdb) ==
    fdb.fdbHeader \o fdb.filePos \o fdb.length \o fdb.fileCRC \o fdb.fdbCRC

\* the FileDescriptionBlock_t read from flash at addr
FdbAt(fl, addr) ==
    LET b == W25QXX_Read(fl, addr, SizeofFileDescriptionBlock)
    IN  [ fdbHeader |-> SubSeq(b, 1, 4), filePos |-> SubSeq(b, 5, 8),
          length |-> SubSeq(b, 9, 12), fileCRC |-> SubSeq(b, 13, 16),
          fdbCRC |-> SubSeq(b, 17, 20) ]

\* CRC over all fields of an FDB except the trailing fdbCRC
FdbCrc(fdb) ==
    Crc32(CRC32_INITIAL_VALUE,
          fdb.fdbHeader \o fdb.filePos \o fdb.length \o fdb.fileCRC)

\* Write(file, data, size): the flash and the file afterwards
Write(fl, fp, data) ==
    LET size == Len(data)
        area == fp.blockLength - FILE_DESCRIPTION_AREA_SIZE
        base == fp.blockPosition + FILE_DESCRIPTION_AREA_SIZE
    IN  IF size = 0 THEN [ flash |-> fl, file |-> fp, ret |-> FALSE ]
        ELSE IF fp.writePos + size > area
        THEN LET writeSize == area - fp.writePos
                 remainingSize == size - writeSize
                 fl1 == W25QXX_Write(fl, SubSeq(data, 1, writeSize),
                                     base + fp.writePos)
                 fl2 == W25QXX_Write(fl1, SubSeq(data, writeSize + 1, size), base)
             IN  [ flash |-> fl2,
                   file |-> [fp EXCEPT !.writePos = remainingSize,
                                       !.length = remainingSize],
                   ret |-> TRUE ]
        ELSE [ flash |-> W25QXX_Write(fl, data, base + fp.writePos),
               file |-> [fp EXCEPT !.writePos = fp.writePos + size,
                                   !.length = fp.writePos + size],
               ret |-> TRUE ]

\* Read(file, buffer, size): the file afterwards, the bytes read, the result
Read(fl, fp, size) ==
    LET area == fp.blockLength - FILE_DESCRIPTION_AREA_SIZE
        base == fp.blockPosition + FILE_DESCRIPTION_AREA_SIZE
    IN  IF size = 0 THEN [ file |-> fp, buffer |-> << >>, ret |-> -1 ]
        ELSE IF fp.readPos >= fp.length
        THEN [ file |-> fp, buffer |-> << >>, ret |-> 0 ]
        ELSE LET sz == IF fp.readPos + size > fp.length
                       THEN fp.length - fp.readPos ELSE size
             IN  IF fp.readPos + sz > area
                 THEN LET readSize == area - fp.readPos
                          remainingSize == sz - readSize
                      IN  [ file |-> [fp EXCEPT !.readPos = remainingSize],
                            buffer |-> W25QXX_Read(fl, base + fp.readPos, readSize)
                                       \o W25QXX_Read(fl, base, remainingSize),
                            ret |-> sz ]
                 ELSE [ file |-> [fp EXCEPT !.readPos = fp.readPos + sz],
                        buffer |-> W25QXX_Read(fl, base + fp.readPos, sz),
                        ret |-> sz ]

RECURSIVE CalculateCRCLoop(_, _, _, _)
CalculateCRCLoop(fl, fp, crc, remaining) ==
    IF remaining = 0 THEN crc
    ELSE LET chunk == IF remaining < MEM_BLOCK_SIZE THEN remaining
                      ELSE MEM_BLOCK_SIZE
             r == Read(fl, fp, chunk)
         IN  IF r.ret <= 0 THEN U32(0)
             ELSE CalculateCRCLoop(fl, r.file, Crc32(crc, r.buffer),
                                   remaining - r.ret)

\* the file when the loop of CalculateCRC is left
RECURSIVE CalculateCRCFile(_, _, _)
CalculateCRCFile(fl, fp, remaining) ==
    IF remaining = 0 THEN fp
    ELSE LET chunk == IF remaining < MEM_BLOCK_SIZE THEN remaining
                      ELSE MEM_BLOCK_SIZE
             r == Read(fl, fp, chunk)
         IN  IF r.ret <= 0 THEN r.file
             ELSE CalculateCRCFile(fl, r.file, remaining - r.ret)

\* CalculateCRC(file) with the scratch block granted by MemPool_Alloc; readPos
\* is restored on return
CalculateCRC(fl, fp) ==
    CalculateCRCLoop(fl, [fp EXCEPT !.readPos = 0], CRC32_INITIAL_VALUE, fp.length)

\* SetWritePos(file, pos)
SetWritePos(fp, pos) == [fp EXCEPT !.writePos = pos]

\* SetReadPos(file, pos)
SetReadPos(fp, pos) == IF pos > fp.length THEN fp ELSE [fp EXCEPT !.readPos = pos]

\* UpdateFileDescription(file): the flash and the file afterwards
UpdateFileDescription(fl, fp) ==
    LET crc == CalculateCRC(fl, fp)
        body == [ fdbHeader |-> FILE_DESCRIPTION_BLOCK_HEADER,
                  filePos |-> U32(fp.filePos), length |-> U32(fp.length),
                  fileCRC |-> crc ]
        fdb == [ fdbHeader |-> body.fdbHeader, filePos |-> body.filePos,
                 length |-> body.length, fileCRC |-> body.fileCRC,
                 fdbCRC |-> FdbCrc(body) ]
    IN  [ flash |-> W25QXX_Write(fl, FdbBytes(fdb), fp.blockPosition + fp.fdbPos),
          file |-> [fp EXCEPT !.crc = crc] ]

\* the binary search of FindOutFileDescriptionBlock for the first slot whose
\* header is not the magic
RECURSIVE FirstInvalidSlot(_, _, _, _)
FirstInvalidSlot(fl, fp, lo, hi) ==
    IF lo >= hi THEN lo
    ELSE LET mid == lo + ((hi - lo) \div 2)
             tmp == FdbAt(fl, fp.blockPosition + mid * SizeofFileDescriptionBlock)
         IN  IF tmp.fdbHeader = FILE_DESCRIPTION_BLOCK_HEADER
             THEN FirstInvalidSlot(fl, fp, mid + 1, hi)
             ELSE FirstInvalidSlot(fl, fp, lo, mid)

\* FindOutFileDescriptionBlock(file, fdb): whether a block was found, the
\* block, and fdbPos afterwards
FindOutFileDescriptionBlock(fl, fp) ==
    LET slots == FILE_DESCRIPTION_AREA_SIZE \div SizeofFileDescriptionBlock
        notFound == [ found |-> FALSE, fdbPos |-> fp.fdbPos ]
    IN  IF FdbAt(fl, fp.blockPosition).fdbHeader # FILE_DESCRIPTION_BLOCK_HEADER
        THEN notFound
        ELSE LET lo == FirstInvalidSlot(fl, fp, 0, slots)
             IN  IF lo = 0 THEN notFound
                 ELSE LET lastIndex == lo - 1
                          fdb == FdbAt(fl, fp.blockPosition
                                           + lastIndex * SizeofFileDescriptionBlock)
                      IN  IF \/ fdb.fdbHeader # FILE_DESCRIPTION_BLOCK_HEADER
                             \/ fdb.fdbCRC # FdbCrc(fdb)
                          THEN notFound
                          ELSE [ found |-> TRUE, fdb |-> fdb,
                                 fdbPos |-> lastIndex * SizeofFileDescriptionBlock ]

\* StoreFile_Init(file, memoryPosition, memoryLength) on a zeroed StoreFile_t
StoreFile_Init(fl, memoryPosition, memoryLength) ==
    LET fp == [ blockPosition |-> memoryPosition, blockLength |-> memoryLength,
                fdbPos |-> 0, filePos |-> 0, crc |-> U32(0), length |-> 0,
                readPos |-> 0, writePos |-> 0 ]
        r == FindOutFileDescriptionBlock(fl, fp)
    IN  IF ~r.found
        THEN [fp EXCEPT !.fdbPos = 0, !.filePos = FILE_DESCRIPTION_AREA_SIZE]
        ELSE [fp EXCEPT !.fdbPos = r.fdbPos,
                        !.filePos = U32Value(r.fdb.filePos),
                        !.crc = r.fdb.fileCRC,
                        !.length = U32Value(r.fdb.length)]

\* variant: the slot position never returns to the start of the area
NewFile_NoWrap(fp) ==
    LET end == fp.filePos + fp.length
        filePos == IF end > fp.blockLength - FILE_DESCRIPTION_AREA_SIZE
                   THEN end - (fp.blockLength - FILE_DESCRIPTION_AREA_SIZE)
                   ELSE end
    IN  [fp EXCEPT !.fdbPos = fp.fdbPos + SizeofFileDescriptionBlock,
                   !.filePos = filePos, !.crc = U32(0),
                   !.length = 0, !.readPos = 0, !.writePos = 0]

\* NewFile(file)
NewFile(fp) ==
    LET pos == fp.fdbPos + SizeofFileDescriptionBlock
        fdbPos == IF pos + SizeofFileDescriptionBlock >= FILE_DESCRIPTION_AREA_SIZE
                  THEN 0 ELSE pos
        end == fp.filePos + fp.length
        filePos == IF end > fp.blockLength - FILE_DESCRIPTION_AREA_SIZE
                   THEN end - (fp.blockLength - FILE_DESCRIPTION_AREA_SIZE)
                   ELSE end
    IN  [fp EXCEPT !.fdbPos = fdbPos, !.filePos = filePos, !.crc = U32(0),
                   !.length = 0, !.readPos = 0, !.writePos = 0]

(***************************************************************************)
(* DataStore/data_store.c                                                  *)
(***************************************************************************)
\* float and integer fields are the 4 bytes they occupy (IEEE-754 single)
F32 ==
    "0.5" :> <<0, 0, 0, 63>> @@ "1.0" :> <<0, 0, 128, 63>> @@ "2.0" :> <<0, 0, 0, 64>>
    @@ "10.0" :> <<0, 0, 32, 65>> @@ "20.0" :> <<0, 0, 160, 65>>
    @@ "2pi" :> <<219, 15, 201, 64>> @@ "10000.0" :> <<0, 64, 28, 70>>
    @@ "0.032" :> <<111, 18, 3, 61>> @@ "0.164" :> <<158, 239, 39, 62>>
    @@ "-0.164" :> <<158, 239, 39, 190>>

\* the fields of the static dataStore in declaration order; port carries the
\* two bytes of padding that follow it
DataStoreFields ==
    << "pulsePerRevolution", "maxRpm", "gearRatio", "ipv4", "port",
       "wheelRadius", "trackWidth", "stateFeedbackFrequency",
       "odometryFeedbackFrequency", "maxLinearAcceleration",
       "maxAngularAcceleration", "maxVelocity", "maxOmega" >>

DataStoreZero == [ f \in { DataStoreFields[i] : i \in 1..Len(DataStoreFields) }
                     |-> U32(0) ]

RECURSIVE DataStoreBytesFrom(_, _)
DataStoreBytesFrom(ds, i) ==
    IF i > Len(DataStoreFields) THEN << >>
    ELSE ds[DataStoreFields[i]] \o DataStoreBytesFrom(ds, i + 1)

\* the sizeof(dataStore) bytes of the record
DataStoreBytes(ds) == DataStoreBytesFrom(ds, 1)

\* the record after its first Len(bytes) bytes were overwritten
DataStoreOverwrite(ds, bytes) ==
    LET all == bytes \o SubSeq(DataStoreBytes(ds), Len(bytes) + 1, SizeofDataStore)
    IN  [ f \in DOMAIN ds |->
            LET i == CHOOSE k \in 1..Len(DataStoreFields) : DataStoreFields[k] = f
            IN  SubSeq(all, 4 * i - 3, 4 * i) ]

\* the defaults DataStore_Init writes when no record could be loaded
DataStoreDefaults(ds) ==
    [ds EXCEPT !.ipv4 = <<192, 168, 55, 100>>,
               !.port = U32(12000),
               !.wheelRadius = F32["0.032"],
               !.trackWidth = F32["0.164"],
               !.pulsePerRevolution = F32["10000.0"],
               !.maxVelocity = F32["1.0"],
               !.maxOmega = F32["2pi"]]

\* ReadDataFromFile: the file and the record afterwards, and the result
ReadDataFromFile(fl, fp, ds) ==
    LET r == Read(fl, SetReadPos(fp, 0), SizeofDataStore)
    IN  IF r.ret = 0
        THEN [ file |-> r.file, dataStore |-> ds, ret |-> FALSE ]
        ELSE LET loaded == DataStoreOverwrite(ds, r.buffer)
                 crc == Crc32(CRC32_INITIAL_VALUE, DataStoreBytes(loaded))
             IN  [ file |-> SetReadPos(r.file, 0), dataStore |-> loaded,
                   ret |-> (r.file.crc = crc) ]

\* DataStore_Init after a power cycle: the file and the record it leaves
DataStore_Init(fl) ==
    LET Loaded(r) == [ file |-> r.file,
                       dataStore |-> IF r.ret THEN r.dataStore
                                     ELSE DataStoreDefaults(r.dataStore),
                       loaded |-> r.ret ]
    IN  Loaded(ReadDataFromFile(fl,
                                StoreFile_Init(fl, EXT_FLASH_PARAMETER_FILE_ADDRESS,
                                               EXT_FLASH_PARAMETER_FILE_SIZE),
                                DataStoreZero))

\* SaveDataToFile: the flash and the file afterwards
SaveDataToFile(fl, fp, ds) ==
    LET w == Write(fl, NewFile(fp), DataStoreBytes(ds))
    IN  UpdateFileDescription(w.flash, w.file)

\* what the client of the file writes as record n of stream s
Payload(s, n) ==
    [ i \in 1..(4 * (1 + ((n + s) % 3))) |-> (7 * n + 13 * i + s) % 256 ]

NoBoot == [ran |-> FALSE]

\* no slot of the file description area has been damaged
NoSlot == -1

(***************************************************************************)
(* MiddleWare/udp.c, ROS_Interface/ros_interface.c, ros_parameters.c,      *)
(* ros_publisher_*.c                                                       *)
(***************************************************************************)
\* the port ROS_Interface_SendBackMessage writes into the destination
DEFAULT_REMOTE_UDP_PORT == "DEFAULT_REMOTE_UDP_PORT"

\* what the wire delivers to the ROS socket: heartbeats, velocity commands,
\* parameter sets, a datagram shorter than a type tag and an empty one
Datagrams ==
    { msg \in HeartBeatMessages : HeartBeatAccepted(msg) /\ msg.reset = 0 }
    \cup { msg \in VelocityMessages : msg.velocity = 500 /\ msg.omega = -1000 }
    \cup [ size : {SizeofParametersMessage, ROS_MAX_CMD_MESSAGE_SIZE},
           messageType : {ROS_CMD_PARAMETERS}, messageID : {7},
           stateFeedbackFrequency : {20}, odometryFeedbackFrequency : {10},
           wheelDiameter : {(<<111, 18, 131, 61>>)}, trackWidth : {(<<205, 204, 76, 62>>)},
           maxLinearVelocity : {F32["2.0"]}, maxAngularVelocity : {F32["1.0"]},
           maxLinearAcceleration : {F32["0.5"]}, maxAngularAcceleration : {F32["0.5"]} ]
    \cup { [size |-> 2], [size |-> 0] }
    \* heartbeat and velocity requests of another size than their records
    \cup { msg \in HeartBeatMessages : msg.size # SizeofHeartBeatMessage }
    \cup { msg \in VelocityMessages : msg.size # SizeofVelocityMessage }
    \* SET_IO requests of the size of SetIoMessage_t and of another size
    \cup [ size : {SizeofSetIoMessage, SizeofMotionMessage},
           messageType : {ROS_CMD_SET_IO}, messageID : {7},
           ioPinNo : {1}, ioValue : {1} ]

\* memcpy(&receivedAddr, addr, sizeof(NET_ADDR)) after k of its parts were
\* copied: what another thread finds in receivedAddr at that moment
PartialCopy(cached, peer, k) ==
    LET old == <<cached.port>> \o cached.addr
        new == <<peer.port>> \o peer.addr
        mix == [ i \in 1..5 |-> IF i <= k THEN new[i] ELSE old[i] ]
    IN  [ addr |-> SubSeq(mix, 2, 5), port |-> mix[1] ]

NoArrival == [size |-> 0]

\* UDP_Callback: the ingress queue after the datagram was offered to it
UDP_Callback(queue, dg) ==
    IF dg.size < SizeofMessageType THEN queue
    ELSE IF dg.size > ROS_MAX_CMD_MESSAGE_SIZE THEN queue
    ELSE IF Len(queue) >= ROS_INTERFACE_Q_LEN THEN queue
    ELSE Append(queue, dg)

\* ROS_Interface_RegisterIncomingCallback: the table afterwards
RegisterIncoming(entries, messageType, callback) ==
    LET free == { i \in 1..MAX_INCOMING_CALLBACKS : entries[i].callback = "NULL" }
    IN  IF free = {} THEN entries
        ELSE [entries EXCEPT ![CHOOSE i \in free : \A j \in free : i <= j] =
                                [msgType |-> messageType, callback |-> callback]]

\* variant: the first registered handler is called whatever the tag
IncomingDispatch_AnyType(entries, msg) ==
    LET hits == { i \in 1..MAX_INCOMING_CALLBACKS : entries[i].callback # "NULL" }
    IN  IF hits = {} THEN << >>
        ELSE LET i == CHOOSE k \in hits : \A j \in hits : k <= j
             IN  << [ entry |-> i, callback |-> entries[i].callback,
                      data |-> msg, size |-> msg.size ] >>

\* the loop of IncomingTask over the table: the handler calls it makes
IncomingDispatch(entries, msg) ==
    LET hits == { i \in 1..MAX_INCOMING_CALLBACKS :
                    entries[i].callback # "NULL"
                    /\ entries[i].msgType = msg.messageType }
    IN  IF hits = {} THEN << >>
        ELSE LET i == CHOOSE k \in hits : \A j \in hits : k <= j
             IN  << [ entry |-> i, callback |-> entries[i].callback,
                      data |-> msg, size |-> msg.size ] >>

\* ROS_Interface_SendBackMessage: the datagrams handed to UDP_SendDataTo
ROS_Interface_SendBackMessage(cached, what) ==
    IF cached.port = 0 THEN << >>
    ELSE << [ addr |-> cached.addr, port |-> DEFAULT_REMOTE_UDP_PORT,
              what |-> what ] >>

\* SetParametersCallback: the record after the eight setters ran
SetParametersCallbackStore(ds, msg) ==
    [ds EXCEPT !.stateFeedbackFrequency = (CASE (msg.stateFeedbackFrequency) = 0 -> U32(0) [] (msg.stateFeedbackFrequency) = 10 -> F32["10.0"] [] (msg.stateFeedbackFrequency) = 20 -> F32["20.0"]),
               !.odometryFeedbackFrequency = (CASE (msg.odometryFeedbackFrequency) = 0 -> U32(0) [] (msg.odometryFeedbackFrequency) = 10 -> F32["10.0"] [] (msg.odometryFeedbackFrequency) = 20 -> F32["20.0"]),
               !.wheelRadius = (IF (msg.wheelDiameter)[3] >= 128 THEN << (msg.wheelDiameter)[1], (msg.wheelDiameter)[2], (msg.wheelDiameter)[3] - 128, (msg.wheelDiameter)[4] >>
                                ELSE << (msg.wheelDiameter)[1], (msg.wheelDiameter)[2], (msg.wheelDiameter)[3] + 128, (msg.wheelDiameter)[4] - 1 >>),
               !.trackWidth = msg.trackWidth,
               !.maxVelocity = msg.maxLinearVelocity,
               !.maxOmega = msg.maxAngularVelocity,
               !.maxLinearAcceleration = msg.maxLinearAcceleration,
               !.maxAngularAcceleration = msg.maxAngularAcceleration]

\* ROS_Interface_RegisterFeedbackCallback: the table afterwards
RegisterFeedback(entries, period, callback) ==
    LET free == { i \in 1..MAX_FEEDBACK_CALLBACKS : entries[i].callback = "NULL" }
    IN  IF free = {} THEN entries
        ELSE [entries EXCEPT ![CHOOSE i \in free : \A j \in free : i <= j] =
                                [feedbackPeriod |-> period, remainTime |-> period,
                                 callback |-> callback]]

\* variant: the countdown has to pass below zero
FeedbackEntryTick_BelowZero(e) ==
    LET r == IF e.remainTime >= 0 THEN e.remainTime - CHECK_FEEDBACK_PERIOD
             ELSE e.remainTime
    IN  IF e.callback # "NULL" /\ r < 0
        THEN [ entry |-> [e EXCEPT !.remainTime = e.feedbackPeriod], invoked |-> TRUE ]
        ELSE [ entry |-> [e EXCEPT !.remainTime = r], invoked |-> FALSE ]

\* the body of the loop of FeedbackTask for one entry: the entry afterwards
\* and whether its producer was called
FeedbackEntryTick(e) ==
    LET r == IF e.remainTime > 0 THEN e.remainTime - CHECK_FEEDBACK_PERIOD
             ELSE e.remainTime
    IN  IF e.callback # "NULL" /\ r <= 0
        THEN [ entry |-> [e EXCEPT !.remainTime = e.feedbackPeriod], invoked |-> TRUE ]
        ELSE [ entry |-> [e EXCEPT !.remainTime = r], invoked |-> FALSE ]

(***************************************************************************)
(* Initial state                                                           *)
(***************************************************************************)
MotionInit ==
    /\ build \in {"chassis_motion", "motion_control"}
    /\ receiverValue = [ steering |-> 0, throttle |-> 0, autoMode |-> FALSE,
                         failSafe |-> FALSE, frameLost |-> FALSE ]
    /\ frameDecoded = FALSE
    /\ cmdVel = [velocity |-> 0, omega |-> 0]
    /\ lastAccepted = <<>>
    /\ \E lim \in { <<DEFAULT_MAX_VELOCITY, DEFAULT_MAX_OMEGA>>, <<500, 3000>> } :
            maxVelocity = lim[1] /\ maxOmega = lim[2]
    /\ isAutoMode = FALSE
    /\ chassisCmd = <<0, 0>>
    /\ tick = NoTick
    /\ mc = [ isAutoPilotMode |-> TRUE, velocity |-> 0, omega |-> 0,
              remoteVelocity |-> 0, remoteOmega |-> 0 ]
    /\ mcFlags = {}
    /\ mcCmd = <<0, 0>>
    /\ mcTick = NoTick

\* ROS_Heartbeat_Init: lastHeartbeatTime = osKernelGetTickCount(), timer started
HeartbeatInit ==
    /\ now = 0
    /\ lastHeartbeatTime = now
    /\ isUpperMachineAlive = FALSE
    /\ resetRequestCallback = "NULL"
    /\ hbCheckedAt = 0
    /\ hbReceived = FALSE
    /\ hbCheck = [ran |-> FALSE]
    /\ hbReply = [sent |-> FALSE]

\* factory-fresh flash; DataStore_Init has run on it
StoreInit ==
    /\ flash = ErasedFlash
    /\ LET Boot(r) == paramFile = r.file /\ dataStore = r.dataStore
       IN  Boot(DataStore_Init(ErasedFlash))
    /\ dsEventFlags = {}
    /\ records = 0
    /\ committed = [ filePos |-> 0, length |-> 0, crc |-> U32(0), fdbPos |-> 0 ]
    /\ filePhase = "fresh"
    /\ stream = 0
    /\ fileBoot = NoBoot
    /\ saved = DataStoreZero
    /\ saves = 0
    /\ dsBoot = NoBoot
    /\ dsThread = [pc |-> "wait", checked |-> DataStoreZero, differs |-> FALSE,
                   wrote |-> FALSE]

\* nothing injected, nothing probed
ProbeInit ==
    /\ corrupted = NoSlot
    /\ probe = [phase |-> "none"]

\* the interface after ROS_Interface_Init, nothing received yet
RosInit ==
    /\ receivedAddr = [addr |-> <<0, 0, 0, 0>>, port |-> 0]
    /\ udpPending = NoArrival
    /\ rosQueue = << >>
    \* heartbeat, velocity and IO handlers (the motion-state and light
    \* services are not among the source files)
    /\ incomingCallbackEntrys =
        RegisterIncoming(
            RegisterIncoming(
                RegisterIncoming(
                    RegisterIncoming(
                        [ i \in 1..MAX_INCOMING_CALLBACKS |->
                            [msgType |-> 0, callback |-> "NULL"] ],
                        ROS_HEART_BEAT, "HeartBeatCallback"),
                    ROS_CMD_VELOCITY, "CmdVelCallback"),
                ROS_CMD_SET_IO, "SetIoCallback"),
            ROS_CMD_READ_IO, "ReadIoCallback")
    \* chassis state, then odometry
    /\ feedbackCallbackEntrys =
        RegisterFeedback(
            RegisterFeedback(
                [ i \in 1..MAX_FEEDBACK_CALLBACKS |->
                    [feedbackPeriod |-> 0, remainTime |-> 0, callback |-> "NULL"] ],
                \* the period for the frequency the parameter store holds at boot
                (CASE dataStore.stateFeedbackFrequency = U32(0)
                        -> DEFAULT_PUBLISH_INTERVAL_MS
                   [] dataStore.stateFeedbackFrequency = F32["10.0"] -> 100
                   [] dataStore.stateFeedbackFrequency = F32["20.0"] -> 50),
                "PrepareChassisStateMessage"),
            PUBLISH_INTERVAL, "PrepareOdomMessage")
    /\ lastSource = [any |-> FALSE]
    /\ paramsArrived = [size |-> 0]
    /\ sinceFire = [i \in 1..MAX_FEEDBACK_CALLBACKS |-> 0]
    /\ rosStep = [task |-> "none", tx |-> << >>]

\* dc_motor.c, pid.c
TOTAL_MOTOR_NUMBER == 2
\* gains of the wheel controllers
KP == 6000
KI == 200
KD == 500
MAX_SUM_ERROR == 1000
\* the PWM range of PeriodCallback
PWM_LIMIT == 65536

\* mem_pool.c
MEMPOOL_TYPES == 6

\* the motor controllers after DCMotor_Init, which runs PID_Init on both, and
\* the pool after MemPool_Init
DeviceInit ==
    /\ pid = [ i \in 0..(TOTAL_MOTOR_NUMBER - 1) |->
                [object |-> 0, sumError |-> 0, lastError |-> 0] ]
    /\ measuredAngularSpeed = [i \in 0..(TOTAL_MOTOR_NUMBER - 1) |-> 0]
    /\ pwmOut = [i \in 0..(TOTAL_MOTOR_NUMBER - 1) |-> 0]
    /\ pwmOutMean = [i \in 0..(TOTAL_MOTOR_NUMBER - 1) |-> 0]
    /\ periods = 0
    /\ driveStep = [op |-> "none"]
    /\ memPool = [ i \in 1..MEMPOOL_TYPES |->
                     [memSize |-> 128 * (2 ^ (i - 1)), memPoolObjects |-> <<64, 32, 16, 8, 4, 2>>[i],
                      used |-> {}] ]
    /\ poolStep = [op |-> "none"]

\* no handler has been entered
TaskInit ==
    /\ hbTimer = [pc |-> "idle"]
    /\ rcTask = [pc |-> "wait"]
    /\ rcReader = [pc |-> "idle"]
    /\ cvTask = [pc |-> "wait", seen |-> {}]
    /\ cvReader = [pc |-> "idle"]

Init ==
    /\ MotionInit /\ HeartbeatInit /\ StoreInit /\ ProbeInit /\ RosInit /\ DeviceInit
    /\ TaskInit

(***************************************************************************)
(* Actions                                                                 *)
(***************************************************************************)
\* RC_Receiver_Process handles one queued frame: parse, decode, callbacks
RC_Receiver_Process ==
    \E frame \in Frames :
        LET ch == S_BUS_Parse(frame) IN
        /\ IF ch.ok
           THEN LET rv == Get_WFLY_Receiver_Values(ch) IN
                /\ receiverValue' = rv
                /\ frameDecoded' = TRUE
                \* callbackList holds ReceiverCallback once MotionControl_Init ran
                /\ mc' = IF build = "motion_control"
                         THEN ReceiverCallback(mc, rv, maxVelocity, maxOmega)
                         ELSE mc
           ELSE UNCHANGED <<receiverValue, frameDecoded, mc>>
        /\ tick' = NoTick
        /\ mcTick' = NoTick
        /\ UNCHANGED <<build, cmdVel, lastAccepted, maxVelocity, maxOmega, isAutoMode,
                       chassisCmd, mcFlags, mcCmd>>

\* CmdVelCallback(data, size) on one datagram
CmdVelCallbackOn(msg) ==
    /\ cmdVel' = CmdVelCallbackStatics(cmdVel, msg)
    /\ lastAccepted' = IF msg.size = SizeofVelocityMessage
                          /\ msg.messageType = ROS_CMD_VELOCITY
                       THEN <<msg.velocity, msg.omega>>
                       ELSE lastAccepted
    /\ tick' = NoTick
    /\ mcTick' = NoTick
    /\ UNCHANGED <<build, receiverValue, frameDecoded, maxVelocity, maxOmega,
                   isAutoMode, chassisCmd, mc, mcFlags, mcCmd>>

\* the ingress task hands one CMD_VELOCITY datagram to CmdVelCallback
CmdVelCallback ==
    /\ build = "chassis_motion"
    /\ \E msg \in VelocityMessages : CmdVelCallbackOn(msg)

\* the host's motion-mode request reaches ChassisMotion_SetAutoMode
ChassisMotion_SetAutoMode ==
    /\ build = "chassis_motion"
    /\ \E autoMode \in BOOLEAN :
        /\ isAutoMode' = autoMode
        /\ tick' = NoTick
        /\ mcTick' = NoTick
        /\ UNCHANGED <<build, receiverValue, frameDecoded, cmdVel, lastAccepted,
                       maxVelocity, maxOmega, chassisCmd, mc, mcFlags, mcCmd>>

\* one 20 ms period of ThreadChassisMotion
ThreadChassisMotion ==
    /\ build = "chassis_motion"
    /\ LET snap == Receiver_Read
           step == SupervisorStep(snap, isAutoMode, ROS_SubscriberCmdVel_ReadVelocity,
                                  maxVelocity, maxOmega)
       IN  /\ isAutoMode' = step.latch
           /\ chassisCmd' = IF step.calls = << >> THEN chassisCmd
                            ELSE step.calls[Len(step.calls)]
           /\ tick' = [ ran |-> TRUE, snap |-> snap, latchBefore |-> isAutoMode,
                        calls |-> step.calls, src |-> step.src,
                        decoded |-> frameDecoded, accepted |-> lastAccepted,
                        hostTimedOut |-> hbReceived /\ ~isUpperMachineAlive ]
    /\ mcTick' = NoTick
    /\ UNCHANGED <<build, receiverValue, frameDecoded, cmdVel, lastAccepted,
                   maxVelocity, maxOmega, mc, mcFlags, mcCmd>>

\* MotionControlTimerCallback (every 20 ms) sets FLAG_MOTION_MOVE
MotionControlTimerCallback ==
    /\ build = "motion_control"
    /\ mcFlags' = mcFlags \cup {"FLAG_MOTION_MOVE"}
    /\ tick' = NoTick
    /\ mcTick' = NoTick
    /\ UNCHANGED <<build, receiverValue, frameDecoded, cmdVel, lastAccepted, maxVelocity,
                   maxOmega, isAutoMode, chassisCmd, mc, mcCmd>>

\* the host calls MotionControl_Move(v, w)
MotionControl_Move ==
    /\ build = "motion_control"
    /\ \E v \in {500}, w \in {-1000} :
        /\ mc' = MotionControl_MoveStatics(mc, v, w)
        /\ mcFlags' = mcFlags \cup {"FLAG_MOTION_MOVE"}
        /\ tick' = NoTick
        /\ mcTick' = [ran |-> FALSE, moved |-> <<v, w>>]
        /\ UNCHANGED <<build, receiverValue, frameDecoded, cmdVel, lastAccepted,
                       maxVelocity, maxOmega, isAutoMode, chassisCmd, mcCmd>>

\* MotionControl_Process wakes on FLAG_MOTION_MOVE
MotionControl_Process ==
    /\ build = "motion_control"
    /\ "FLAG_MOTION_MOVE" \in mcFlags
    /\ mcFlags' = mcFlags \ {"FLAG_MOTION_MOVE"}
    /\ mc' = (IF ~mc.isAutoPilotMode
              THEN [mc EXCEPT !.velocity = mc.remoteVelocity, !.omega = mc.remoteOmega]
              ELSE mc)
    /\ mcCmd' = <<mc'.velocity, mc'.omega>>
    /\ mcTick' = [ ran |-> TRUE, snap |-> Receiver_Read,
                   calls |-> << <<mc'.velocity, mc'.omega>> >>,
                   decoded |-> frameDecoded,
                   moved |-> IF ~mcTick.ran /\ "moved" \in DOMAIN mcTick
                             THEN mcTick.moved ELSE << >>,
                   autoPilot |-> mc.isAutoPilotMode ]
    /\ tick' = NoTick
    /\ UNCHANGED <<build, receiverValue, frameDecoded, cmdVel, lastAccepted, maxVelocity,
                   maxOmega, isAutoMode, chassisCmd>>

\* the kernel tick advances by 1 ms once the timer callbacks due now have run
AdvanceTime ==
    /\ now < MaxTick
    /\ hbTimer.pc = "idle"
    /\ now % HEARTBEAT_CHECK_PERIOD = 0 => hbCheckedAt = now
    /\ now' = now + 1
    /\ hbCheck' = [ran |-> FALSE]
    /\ hbReply' = [sent |-> FALSE]
    /\ UNCHANGED <<lastHeartbeatTime, isUpperMachineAlive, resetRequestCallback,
                   hbCheckedAt, hbReceived>>

\* HeartBeatCallback(data, size) on one datagram
HeartBeatCallbackOn(msg) ==
    /\ IF HeartBeatAccepted(msg)
       THEN /\ lastHeartbeatTime' = now
            /\ isUpperMachineAlive' = TRUE
            /\ hbReceived' = TRUE
            /\ hbReply' = HeartBeatReply(msg, resetRequestCallback)
       ELSE /\ hbReply' = [sent |-> FALSE]
            /\ UNCHANGED <<lastHeartbeatTime, isUpperMachineAlive, hbReceived>>
    /\ hbCheck' = [ran |-> FALSE]
    /\ UNCHANGED <<now, resetRequestCallback, hbCheckedAt>>

\* the ingress task hands one HEART_BEAT datagram to HeartBeatCallback
HeartBeatCallback ==
    \E msg \in HeartBeatMessages : HeartBeatCallbackOn(msg)

\* the 10 ms periodic timer runs HeartBeatTimeoutCallback
HeartBeatTimeoutCallback ==
    /\ now % HEARTBEAT_CHECK_PERIOD = 0
    /\ hbCheckedAt # now
    /\ hbCheckedAt' = now
    /\ isUpperMachineAlive' = IF HeartBeatTimedOut(now, lastHeartbeatTime)
                              THEN FALSE
                              ELSE isUpperMachineAlive
    /\ hbCheck' = [ran |-> TRUE, timeInterval |-> now - lastHeartbeatTime]
    /\ hbReply' = [sent |-> FALSE]
    /\ UNCHANGED <<now, lastHeartbeatTime, resetRequestCallback, hbReceived>>

\* command arbitration, untimed
Next ==
    \/ RC_Receiver_Process
          /\ UNCHANGED <<hbVars, storeVars, probeVars, rosVars, deviceVars, taskVars>>
    \/ CmdVelCallback /\ UNCHANGED <<hbVars, storeVars, probeVars, rosVars, deviceVars, taskVars>>
    \/ ChassisMotion_SetAutoMode
          /\ UNCHANGED <<hbVars, storeVars, probeVars, rosVars, deviceVars, taskVars>>
    \/ ThreadChassisMotion
          /\ UNCHANGED <<hbVars, storeVars, probeVars, rosVars, deviceVars, taskVars>>
    \/ MotionControlTimerCallback
          /\ UNCHANGED <<hbVars, storeVars, probeVars, rosVars, deviceVars, taskVars>>
    \/ MotionControl_Move /\ UNCHANGED <<hbVars, storeVars, probeVars, rosVars, deviceVars, taskVars>>
    \/ MotionControl_Process
          /\ UNCHANGED <<hbVars, storeVars, probeVars, rosVars, deviceVars, taskVars>>

Spec == Init /\ [][Next]_vars

\* the chassis-motion image with the default limits in its store
InitChassis ==
    /\ Init
    /\ build = "chassis_motion"
    /\ maxVelocity = DEFAULT_MAX_VELOCITY

\* a client calls ROS_Heartbeat_RegisterResetRequestCallback(hook)
ROS_Heartbeat_RegisterResetRequestCallback ==
    /\ resetRequestCallback = "NULL"
    /\ resetRequestCallback' = "hook"
    /\ hbCheck' = [ran |-> FALSE]
    /\ hbReply' = [sent |-> FALSE]
    /\ UNCHANGED <<now, lastHeartbeatTime, isUpperMachineAlive, hbCheckedAt,
                   hbReceived>>

NextHB ==
    \/ ROS_Heartbeat_RegisterResetRequestCallback
          /\ UNCHANGED <<motionVars, storeVars, probeVars, rosVars, deviceVars, taskVars>>
    \/ AdvanceTime /\ UNCHANGED <<motionVars, storeVars, probeVars, rosVars, deviceVars, taskVars>>
    \/ HeartBeatCallback
          /\ UNCHANGED <<motionVars, storeVars, probeVars, rosVars, deviceVars, taskVars>>
    \/ HeartBeatTimeoutCallback
          /\ UNCHANGED <<motionVars, storeVars, probeVars, rosVars, deviceVars, taskVars>>

\* host liveness alone
SpecHB == InitChassis /\ [][NextHB]_vars

\* WrapLead ms before the 32-bit tick counter wraps, a heartbeat just accepted.
\* A uint32_t tick is held in its two's complement reading: tick - 2^32 in
\* the upper half, so the counter passes from -1 to 0 where it wraps, and the
\* uint32_t difference of two ticks less than 2^31 apart is their difference.
InitHBWrap ==
    /\ MotionInit /\ StoreInit /\ ProbeInit /\ RosInit /\ DeviceInit /\ TaskInit
    /\ build = "chassis_motion"
    /\ maxVelocity = DEFAULT_MAX_VELOCITY
    /\ now = -WrapLead
    /\ lastHeartbeatTime = now
    /\ isUpperMachineAlive = TRUE
    /\ resetRequestCallback = "NULL"
    /\ hbCheckedAt = now
    /\ hbReceived = TRUE
    /\ hbCheck = [ran |-> FALSE]
    /\ hbReply = [sent |-> FALSE]

\* host liveness while the tick counter wraps
SpecHBWrap == InitHBWrap /\ [][NextHB]_vars

\* the 10 ms timer enters HeartBeatTimeoutCallback, which computes
\* timeInterval = osKernelGetTickCount() - lastHeartbeatTime
HeartBeatTimeoutSample ==
    /\ hbTimer.pc = "idle"
    /\ now % HEARTBEAT_CHECK_PERIOD = 0
    /\ hbCheckedAt # now
    /\ hbCheckedAt' = now
    /\ hbTimer' = [pc |-> "sampled", tickCount |-> now, last |-> lastHeartbeatTime]
    /\ hbCheck' = [ran |-> FALSE]
    /\ hbReply' = [sent |-> FALSE]
    /\ UNCHANGED <<now, lastHeartbeatTime, isUpperMachineAlive, resetRequestCallback,
                   hbReceived>>

\* HeartBeatTimeoutCallback compares the interval it computed and calls
\* ROS_Interface_UpdateHeartbeatStatus(false) if it is a timeout
HeartBeatTimeoutStore ==
    /\ hbTimer.pc = "sampled"
    /\ isUpperMachineAlive' = IF HeartBeatTimedOut(hbTimer.tickCount, hbTimer.last)
                              THEN FALSE
                              ELSE isUpperMachineAlive
    /\ hbTimer' = [pc |-> "idle"]
    /\ hbCheck' = [ran |-> TRUE, timeInterval |-> hbTimer.tickCount - hbTimer.last]
    /\ hbReply' = [sent |-> FALSE]
    /\ UNCHANGED <<now, lastHeartbeatTime, resetRequestCallback, hbCheckedAt,
                   hbReceived>>

NextHBRace ==
    \/ AdvanceTime /\ UNCHANGED <<motionVars, storeVars, probeVars, rosVars, deviceVars, taskVars>>
    \/ HeartBeatCallback
          /\ UNCHANGED <<motionVars, storeVars, probeVars, rosVars, deviceVars, taskVars>>
    \/ HeartBeatTimeoutSample
          /\ UNCHANGED <<motionVars, storeVars, probeVars, rosVars, deviceVars,
                         rcTask, rcReader, cvTask, cvReader>>
    \/ HeartBeatTimeoutStore
          /\ UNCHANGED <<motionVars, storeVars, probeVars, rosVars, deviceVars,
                         rcTask, rcReader, cvTask, cvReader>>

\* host liveness with the timeout check taken one access at a time, so that
\* the heartbeat handler can run between its read and its write
SpecHBRace == InitChassis /\ [][NextHBRace]_vars

\* C37 as stated: whenever a heartbeat has been accepted and fewer than
\* 200 ms have passed since the latest one, host-alive is true, whatever the
\* timeout check was doing when the handler ran
C37_AliveWithinTimeoutOfHeartbeat ==
    (hbReceived /\ now - lastHeartbeatTime < HEARTBEAT_TIMEOUT_PERIOD)
        => isUpperMachineAlive

\* C33: once 200 ms have passed since the last accepted heartbeat and a
\* 10 ms check has run since, host-alive is false, which is the case at the
\* latest 10 ms after the 200 ms, and it stays false while no heartbeat is
\* accepted; an accepted heartbeat leaves host-alive true; all of it also
\* when the tick counter has wrapped between the heartbeat and the check
C33_TimeoutAcrossWrap ==
    /\ hbCheckedAt - lastHeartbeatTime >= HEARTBEAT_TIMEOUT_PERIOD
            => ~isUpperMachineAlive
    /\ now - lastHeartbeatTime >= HEARTBEAT_TIMEOUT_PERIOD + HEARTBEAT_CHECK_PERIOD
            => ~isUpperMachineAlive
    /\ hbReply.sent => isUpperMachineAlive /\ lastHeartbeatTime = now

\* the last heartbeat came before the wrap, the check that finds it 200 ms
\* old runs after the wrap and has cleared host-alive
C33_Witness_TimedOutAfterWrap ==
    /\ lastHeartbeatTime < 0
    /\ now > 0
    /\ hbCheck.ran
    /\ hbCheck.timeInterval >= HEARTBEAT_TIMEOUT_PERIOD
    /\ ~isUpperMachineAlive

\* a host that sends its heartbeats and commands and then goes silent, with
\* the supervisor latched to it and the radio switch at AUTO
NextHost ==
    \/ AdvanceTime /\ UNCHANGED <<motionVars, storeVars, probeVars, rosVars, deviceVars, taskVars>>
    \/ HeartBeatTimeoutCallback
          /\ UNCHANGED <<motionVars, storeVars, probeVars, rosVars, deviceVars, taskVars>>
    \/ now < HostSilentFrom /\ HeartBeatCallback
          /\ UNCHANGED <<motionVars, storeVars, probeVars, rosVars, deviceVars, taskVars>>
    \/ now < HostSilentFrom /\ CmdVelCallback /\ cmdVel'.velocity > 0
          /\ UNCHANGED <<hbVars, storeVars, probeVars, rosVars, deviceVars, taskVars>>
    \/ now < HostSilentFrom /\ ChassisMotion_SetAutoMode /\ isAutoMode'
          /\ UNCHANGED <<hbVars, storeVars, probeVars, rosVars, deviceVars, taskVars>>
    \/ now < HostSilentFrom /\ RC_Receiver_Process /\ receiverValue'.autoMode
          /\ ~receiverValue'.failSafe /\ ~receiverValue'.frameLost
          /\ UNCHANGED <<hbVars, storeVars, probeVars, rosVars, deviceVars, taskVars>>
    \/ now % CHASSIS_MOTION_PERIOD = 0 /\ ThreadChassisMotion
          /\ UNCHANGED <<hbVars, storeVars, probeVars, rosVars, deviceVars, taskVars>>

SpecHost == InitChassis /\ [][NextHost]_vars

(***************************************************************************)
(* The parameter file driven through the StoreFile_t interface: one record *)
(* after another, each written, committed, and followed by NewFile         *)
(***************************************************************************)
\* the client calls Write with the next record
ClientWrite ==
    /\ filePhase \in {"fresh", "opened"}
    /\ records < MaxRecords
    /\ \E s \in (IF stream = 0 THEN Streams ELSE {stream}) :
        LET w == Write(flash, paramFile, Payload(s, records + 1))
        IN  /\ flash' = w.flash
            /\ paramFile' = w.file
            /\ stream' = s
    /\ filePhase' = "written"
    /\ fileBoot' = NoBoot
    /\ UNCHANGED <<dataStore, dsEventFlags, records, committed, saved, saves, dsThread, dsBoot>>

\* the client calls UpdateFileDescription
ClientUpdateFileDescription ==
    /\ filePhase = "written"
    /\ LET u == UpdateFileDescription(flash, paramFile)
       IN  /\ flash' = u.flash
           /\ paramFile' = u.file
           /\ committed' = [ filePos |-> u.file.filePos, length |-> u.file.length,
                             crc |-> u.file.crc, fdbPos |-> u.file.fdbPos ]
    /\ records' = records + 1
    /\ filePhase' = "committed"
    /\ fileBoot' = NoBoot
    /\ UNCHANGED <<dataStore, dsEventFlags, stream, saved, saves, dsThread, dsBoot>>

\* the client calls NewFile
ClientNewFile ==
    /\ filePhase = "committed"
    /\ paramFile' = NewFile(paramFile)
    /\ filePhase' = "opened"
    /\ fileBoot' = NoBoot
    /\ UNCHANGED <<flash, dataStore, dsEventFlags, records, committed, stream,
                   saved, saves, dsThread, dsBoot>>

\* power cycle, then a fresh StoreFile_Init
PowerCycleStoreFile_Init ==
    /\ paramFile' = StoreFile_Init(flash, EXT_FLASH_PARAMETER_FILE_ADDRESS,
                                   EXT_FLASH_PARAMETER_FILE_SIZE)
    /\ filePhase' = IF records = 0 THEN "fresh" ELSE "committed"
    /\ fileBoot' = [ran |-> TRUE]
    /\ UNCHANGED <<flash, dataStore, dsEventFlags, records, committed, stream,
                   saved, saves, dsThread, dsBoot>>

(***************************************************************************)
(* The parameter store: setters, the save request, the save task, reboot   *)
(***************************************************************************)
\* DataStore_SetMaxVelocity(velocity)
DataStore_SetMaxVelocity ==
    /\ saves < MaxSaves
    /\ \E velocity \in {F32["0.5"], F32["2.0"]} :
        dataStore' = [dataStore EXCEPT !.maxVelocity = velocity]
    /\ dsBoot' = NoBoot
    /\ UNCHANGED <<flash, paramFile, dsEventFlags, records, committed, filePhase,
                   stream, fileBoot, saved, saves, dsThread>>

\* DataStore_SetWheelRadius(radius)
DataStore_SetWheelRadius ==
    /\ \E radius \in {U32(0)} :
        dataStore' = [dataStore EXCEPT !.wheelRadius = radius]
    /\ dsBoot' = NoBoot
    /\ UNCHANGED <<flash, paramFile, dsEventFlags, records, committed, filePhase,
                   stream, fileBoot, saved, saves, dsThread>>

\* DataStore_SetTrackWidth(width)
DataStore_SetTrackWidth ==
    /\ \E width \in {F32["-0.164"]} :
        dataStore' = [dataStore EXCEPT !.trackWidth = width]
    /\ dsBoot' = NoBoot
    /\ UNCHANGED <<flash, paramFile, dsEventFlags, records, committed, filePhase,
                   stream, fileBoot, saved, saves, dsThread>>

\* DataStore_SetStateFeedbackFrequency(frequency)
DataStore_SetStateFeedbackFrequency ==
    /\ saves < MaxSaves
    /\ \E frequency \in {F32["10.0"]} :
        dataStore' = [dataStore EXCEPT !.stateFeedbackFrequency = frequency]
    /\ dsBoot' = NoBoot
    /\ UNCHANGED <<flash, paramFile, dsEventFlags, records, committed, filePhase,
                   stream, fileBoot, saved, saves, dsThread>>

\* DataStore_SaveDataIfModified
DataStore_SaveDataIfModified ==
    /\ saves < MaxSaves
    /\ dsEventFlags' = dsEventFlags \cup {"EVENT_FLAG_DATA_STORE_MODIFIED"}
    /\ dsBoot' = NoBoot
    /\ UNCHANGED <<flash, paramFile, dataStore, records, committed, filePhase,
                   stream, fileBoot, saved, saves, dsThread>>

\* DataStoreThread going on to SaveDataToFile whatever the two CRCs are
DataStoreThread_AlwaysSaves ==
    /\ dsThread.pc = "wait"
    /\ "EVENT_FLAG_DATA_STORE_MODIFIED" \in dsEventFlags
    /\ dsEventFlags' = dsEventFlags \ {"EVENT_FLAG_DATA_STORE_MODIFIED"}
    /\ LET paramCRC == Crc32(CRC32_INITIAL_VALUE, DataStoreBytes(dataStore))
           fileCRC == CalculateCRC(flash, paramFile)
       IN  dsThread' = [ pc |-> "save", checked |-> dataStore,
                         differs |-> paramCRC # fileCRC, wrote |-> FALSE ]
    /\ dsBoot' = NoBoot
    /\ UNCHANGED <<flash, paramFile, dataStore, records, committed, filePhase, stream,
                   fileBoot, saved, saves>>

\* DataStoreThread from osEventFlagsWait to the comparison of the two CRCs:
\* the record is read under dataStoreMutex, which is released before
\* CalculateCRC and SaveDataToFile
DataStoreThread ==
    /\ dsThread.pc = "wait"
    /\ "EVENT_FLAG_DATA_STORE_MODIFIED" \in dsEventFlags
    /\ dsEventFlags' = dsEventFlags \ {"EVENT_FLAG_DATA_STORE_MODIFIED"}
    /\ LET paramCRC == Crc32(CRC32_INITIAL_VALUE, DataStoreBytes(dataStore))
           fileCRC == CalculateCRC(flash, paramFile)
       IN  dsThread' = [ pc |-> IF paramCRC # fileCRC THEN "save" ELSE "wait",
                         checked |-> dataStore, differs |-> paramCRC # fileCRC,
                         wrote |-> FALSE ]
    /\ dsBoot' = NoBoot
    /\ UNCHANGED <<flash, paramFile, dataStore, records, committed, filePhase, stream,
                   fileBoot, saved, saves>>

\* ... and its call of SaveDataToFile, which takes the mutex again for Write
DataStoreThreadSave ==
    /\ dsThread.pc = "save"
    /\ LET s == SaveDataToFile(flash, paramFile, dataStore)
       IN  /\ flash' = s.flash
           /\ paramFile' = s.file
    /\ saved' = dataStore
    /\ saves' = saves + 1
    /\ dsThread' = [dsThread EXCEPT !.pc = "wait", !.wrote = TRUE]
    /\ dsBoot' = NoBoot
    /\ UNCHANGED <<dataStore, dsEventFlags, records, committed, filePhase, stream,
                   fileBoot>>

\* power cycle, then DataStore_Init
PowerCycleDataStore_Init ==
    /\ LET Boot(r) == /\ paramFile' = r.file
                       /\ dataStore' = r.dataStore
                       /\ dsBoot' = [ran |-> TRUE, loaded |-> r.loaded]
       IN  Boot(DataStore_Init(flash))
    /\ dsEventFlags' = {}
    /\ dsThread' = [pc |-> "wait", checked |-> DataStoreZero, differs |-> FALSE,
                    wrote |-> FALSE]
    /\ UNCHANGED <<flash, records, committed, filePhase, stream, fileBoot,
                   saved, saves>>

\* ... and once it has done so for records n+1 .. k: the first half of them,
\* which changes the flash, and then the rest
RECURSIVE RecordsCommitted(_, _, _, _)
RecordsCommitted(st, s, n, k) ==
    IF n >= k THEN st
    ELSE IF k = n + 1 THEN (LET w == Write(st.flash, IF k = 1 THEN st.file ELSE NewFile(st.file),
                                           Payload(s, k))
                            IN  UpdateFileDescription(w.flash, w.file))
    ELSE LET mid == n + ((k - n) \div 2)
             half == RecordsCommitted(st, s, n, mid)
         IN  IF half.flash # st.flash THEN RecordsCommitted(half, s, mid, k)
             ELSE half

\* the file interface on factory-fresh flash, or on the flash its client has
\* left after committing PreRecords records from factory-fresh flash
InitFile ==
    /\ MotionInit /\ HeartbeatInit /\ ProbeInit /\ DeviceInit
    /\ TaskInit
    /\ build = "motion_control"
    /\ maxVelocity = DEFAULT_MAX_VELOCITY
    /\ \E k \in {0, PreRecords} : \E s \in (IF k = 0 THEN {0} ELSE Streams) :
        LET st == RecordsCommitted(
                      [ flash |-> ErasedFlash,
                        file |-> StoreFile_Init(ErasedFlash,
                                                EXT_FLASH_PARAMETER_FILE_ADDRESS,
                                                EXT_FLASH_PARAMETER_FILE_SIZE) ],
                      s, 0, k)
        IN  /\ flash = st.flash
            /\ paramFile = st.file
            /\ records = k
            /\ stream = s
            /\ committed = IF k = 0
                           THEN [ filePos |-> 0, length |-> 0, crc |-> U32(0),
                                  fdbPos |-> 0 ]
                           ELSE [ filePos |-> st.file.filePos,
                                  length |-> st.file.length,
                                  crc |-> st.file.crc, fdbPos |-> st.file.fdbPos ]
            /\ filePhase = IF k = 0 THEN "fresh" ELSE "committed"
    /\ dataStore = DataStore_Init(ErasedFlash).dataStore
    /\ RosInit
    /\ dsEventFlags = {}
    /\ fileBoot = NoBoot
    /\ saved = DataStoreZero
    /\ saves = 0
    /\ dsBoot = NoBoot
    /\ dsThread = [pc |-> "wait", checked |-> DataStoreZero, differs |-> FALSE,
                   wrote |-> FALSE]

FileNext ==
    \/ ClientWrite /\ UNCHANGED <<motionVars, hbVars, probeVars, rosVars, deviceVars, taskVars>>
    \/ ClientUpdateFileDescription
          /\ UNCHANGED <<motionVars, hbVars, probeVars, rosVars, deviceVars, taskVars>>
    \/ ClientNewFile /\ UNCHANGED <<motionVars, hbVars, probeVars, rosVars, deviceVars, taskVars>>
    \/ PowerCycleStoreFile_Init
          /\ UNCHANGED <<motionVars, hbVars, probeVars, rosVars, deviceVars, taskVars>>

SpecFile == InitFile /\ [][FileNext]_vars

\* the store alone
StoreNext ==
    \/ DataStore_SetMaxVelocity
          /\ UNCHANGED <<motionVars, hbVars, probeVars, rosVars, deviceVars, taskVars>>
    \/ DataStore_SetStateFeedbackFrequency
          /\ UNCHANGED <<motionVars, hbVars, probeVars, rosVars, deviceVars, taskVars>>
    \/ DataStore_SaveDataIfModified
          /\ UNCHANGED <<motionVars, hbVars, probeVars, rosVars, deviceVars, taskVars>>
    \/ DataStoreThread /\ UNCHANGED <<motionVars, hbVars, probeVars, rosVars, deviceVars, taskVars>>
    \/ DataStoreThreadSave
          /\ UNCHANGED <<motionVars, hbVars, probeVars, rosVars, deviceVars, taskVars>>
    \/ PowerCycleDataStore_Init
          /\ UNCHANGED <<motionVars, hbVars, probeVars, rosVars, deviceVars, taskVars>>

SpecStore == InitChassis /\ [][StoreNext]_vars

(***************************************************************************)
(* Command arbitration                                                     *)
(***************************************************************************)
Zero == <<0, 0>>

\* the radio command of a snapshot: (throttle * maxVelocity, steering * maxOmega)
RadioCmd(snap) == <<MulF(snap.throttle, maxVelocity), MulF(snap.steering, maxOmega)>>

AutoValid(snap) == ~snap.frameLost /\ ~snap.failSafe /\ snap.autoMode

\* C1: after a supervisor tick whose radio snapshot reports frameLost or
\* failSafe, the command in force is (0, 0), in ThreadChassisMotion and in
\* MotionControl_Process alike.
C1_FailsafeForcesZero ==
    /\ (tick.ran /\ ((tick.snap).frameLost \/ (tick.snap).failSafe)) => chassisCmd = Zero
    /\ (mcTick.ran /\ ((mcTick.snap).frameLost \/ (mcTick.snap).failSafe)) => mcCmd = Zero

\* C3: a supervisor tick makes at most one SetMotion call, and the pair it
\* applies is wholly the radio command of the snapshot, wholly the host's
\* latest CMD_VELOCITY, or zero.
C3_OneSourcePerTick ==
    tick.ran =>
        /\ Len(tick.calls) <= 1
        /\ \A i \in 1..Len(tick.calls) :
              \/ tick.src = "RADIO" /\ tick.calls[i] = RadioCmd(tick.snap)
              \/ tick.src = "HOST"
                 /\ tick.calls[i] = <<cmdVel.velocity, cmdVel.omega>>
              \/ tick.calls[i] = Zero

C3_Witness ==
    /\ tick.ran /\ tick.src = "HOST" /\ Len(tick.calls) = 1
    /\ tick.calls[1] = <<500, -1000>>
    /\ RadioCmd(tick.snap)[2] \notin {0, -1000}

\* C4: at a tick whose snapshot is valid and manual, the applied command is
\* the radio command of that snapshot, whatever the host sent and whatever the
\* latch held.
C4_ManualFollowsRadio ==
    (tick.ran /\ (~(tick.snap).frameLost /\ ~(tick.snap).failSafe /\ ~(tick.snap).autoMode)) =>
        /\ tick.calls = << RadioCmd(tick.snap) >>
        /\ chassisCmd = RadioCmd(tick.snap)

C4_Witness ==
    /\ tick.ran /\ (~(tick.snap).frameLost /\ ~(tick.snap).failSafe /\ ~(tick.snap).autoMode) /\ tick.latchBefore
    /\ lastAccepted = <<500, -1000>>
    /\ chassisCmd = <<500, 3000>>

C6_LatchClearedByRadio ==
    tick.ran =>
        IF ~tick.snap.autoMode \/ tick.snap.failSafe
        THEN isAutoMode = FALSE
        ELSE isAutoMode = tick.latchBefore

C8_HostTimeoutForcesZero ==
    (tick.ran /\ tick.latchBefore /\ AutoValid(tick.snap) /\ tick.hostTimedOut)
        => (tick.calls # << >> /\ chassisCmd = Zero)

C2_SavedRecordSurvivesPowerCycle ==
    (dsBoot.ran /\ saves > 0) => dataStore = saved

\* C10: from erased flash, once M >= 1 records have been written and
\* committed with NewFile between them, a fresh StoreFile_Init restores the
\* filePos, length and crc (and finds the slot) of the M-th record, also
\* after the slot index has wrapped; the crc is that of the M-th payload
C10_InitRestoresLastCommitted ==
    (fileBoot.ran /\ records >= 1) =>
        /\ paramFile.filePos = committed.filePos
        /\ paramFile.length = committed.length
        /\ paramFile.crc = committed.crc
        /\ paramFile.fdbPos = committed.fdbPos
        /\ paramFile.length = Len(Payload(stream, records))
        /\ paramFile.crc = Crc32(CRC32_INITIAL_VALUE, Payload(stream, records))

C10_Witness ==
    /\ fileBoot.ran
    /\ records > FILE_DESCRIPTION_AREA_SIZE \div SizeofFileDescriptionBlock
    /\ paramFile.fdbPos = 0
    /\ paramFile.crc = committed.crc

(***************************************************************************)
(* The parameter file with one damaged file description block              *)
(***************************************************************************)
FdbSlotAddress(k) == EXT_FLASH_PARAMETER_FILE_ADDRESS + k * SizeofFileDescriptionBlock

\* the slots that hold a block with the magic header
WrittenSlots(fl) ==
    { k \in 0..((FILE_DESCRIPTION_AREA_SIZE \div SizeofFileDescriptionBlock) - 1) :
        FdbAt(fl, FdbSlotAddress(k)).fdbHeader = FILE_DESCRIPTION_BLOCK_HEADER }

\* ... and whose fdbCRC matches the block's other fields
ValidSlots(fl) ==
    { k \in WrittenSlots(fl) :
        FdbAt(fl, FdbSlotAddress(k)).fdbCRC = FdbCrc(FdbAt(fl, FdbSlotAddress(k))) }

\* a bit of the fdbCRC of one written slot flips while the device is idle
CorruptFdbCRC ==
    /\ corrupted = NoSlot
    /\ filePhase = "committed"
    /\ \E k \in WrittenSlots(flash) :
        /\ flash' = [flash EXCEPT ![EXT_FLASH_PARAMETER_FILE_ADDRESS] =
                        [ i \in 1..Len(@) |->
                            IF i = k * SizeofFileDescriptionBlock
                                    + SizeofFileDescriptionBlock - 3
                            THEN Xor8(@[i], 1) ELSE @[i] ]]
        /\ corrupted' = k
    /\ fileBoot' = NoBoot
    /\ UNCHANGED <<paramFile, dataStore, dsEventFlags, records, committed,
                   filePhase, stream, saved, saves, dsThread, dsBoot, probe>>

NextCorrupt ==
    \/ /\ corrupted = NoSlot
       /\ records < MaxCorruptRecords
       /\ ClientWrite \/ ClientUpdateFileDescription \/ ClientNewFile
       /\ UNCHANGED <<motionVars, hbVars, probeVars, rosVars, deviceVars, taskVars>>
    \/ CorruptFdbCRC /\ UNCHANGED <<motionVars, hbVars, rosVars, deviceVars, taskVars>>
    \/ PowerCycleStoreFile_Init
          /\ UNCHANGED <<motionVars, hbVars, probeVars, rosVars, deviceVars, taskVars>>

\* the file block with no record committed
InitCorrupt == InitFile /\ records = 0

SpecCorrupt == InitCorrupt /\ [][NextCorrupt]_vars

\* C11 as stated: once the fdbCRC of one written slot has been damaged, a
\* fresh StoreFile_Init restores the block of the highest slot whose header
\* is the magic and whose fdbCRC matches; when such a slot exists the file is
\* not reported empty
C11_InitSkipsCorruptedFdb ==
    (fileBoot.ran /\ corrupted # NoSlot /\ ValidSlots(flash) # {}) =>
        LET k == (CHOOSE x \in (ValidSlots(flash)) : \A y \in (ValidSlots(flash)) : y <= x)
            fdb == FdbAt(flash, FdbSlotAddress(k))
        IN  /\ paramFile.fdbPos = k * SizeofFileDescriptionBlock
            /\ paramFile.filePos = U32Value(fdb.filePos)
            /\ paramFile.length = U32Value(fdb.length)
            /\ paramFile.crc = fdb.fileCRC

\* C12 as stated: from erased flash, the first completed save leaves exactly
\* one file description block in flash, in slot 0, with length =
\* sizeof(dataStore) and filePos = 4096
C12_FirstSaveWritesSlotZero ==
    saves = 1 =>
        /\ WrittenSlots(flash) = {0}
        /\ FdbAt(flash, FdbSlotAddress(0)).length = U32(SizeofDataStore)
        /\ FdbAt(flash, FdbSlotAddress(0)).filePos = U32(FILE_DESCRIPTION_AREA_SIZE)

(***************************************************************************)
(* Writing across the end of the data area and reading back                *)
(***************************************************************************)
\* B - S: the size of the data area
DataAreaSize == EXT_FLASH_PARAMETER_FILE_SIZE - FILE_DESCRIPTION_AREA_SIZE

\* erased flash, with the last sector of the data area held as well
ErasedFlashToEnd ==
    [ s \in FlashSectors
            \cup { EXT_FLASH_PARAMETER_FILE_ADDRESS + EXT_FLASH_PARAMETER_FILE_SIZE
                    - SECTOR_SIZE }
        |-> ErasedSector(s) ]

\* the client moves the write position close to the end of the data area, or
\* past it: SetWritePos takes any position
ClientSetWritePos ==
    /\ probe.phase = "none"
    /\ \E pos \in { DataAreaSize - k : k \in 1..MaxTail } \cup {DataAreaSize + 1} :
        /\ paramFile' = SetWritePos(paramFile, pos)
        /\ probe' = [phase |-> IF pos <= DataAreaSize THEN "positioned" ELSE "beyond",
                     start |-> pos]
    /\ UNCHANGED <<flash, dataStore, dsEventFlags, records, committed, filePhase,
                   stream, fileBoot, saved, saves, dsThread, dsBoot, corrupted>>

\* the client writes n bytes from there
ClientWriteAtEnd ==
    /\ probe.phase = "positioned"
    /\ \E s \in Streams, n \in 1..MaxWrapWrite :
        LET w == Write(flash, paramFile, [ i \in 1..n |-> (13 * i + 7 * s) % 256 ])
        IN  /\ flash' = w.flash
            /\ paramFile' = w.file
            /\ stream' = s
            /\ probe' = [phase |-> "written", start |-> probe.start,
                         data |-> [ i \in 1..n |-> (13 * i + 7 * s) % 256 ]]
    /\ UNCHANGED <<dataStore, dsEventFlags, records, committed, filePhase,
                   fileBoot, saved, saves, dsThread, dsBoot, corrupted>>

\* the client reads the same logical positions back: SetReadPos, then Read
ClientReadBack ==
    /\ probe.phase = "written"
    /\ LET r == Read(flash, SetReadPos(paramFile, probe.start), Len(probe.data))
       IN  /\ paramFile' = r.file
           /\ probe' = [phase |-> "read", start |-> probe.start,
                        data |-> probe.data, ret |-> r.ret, buffer |-> r.buffer]
    /\ UNCHANGED <<flash, dataStore, dsEventFlags, records, committed, filePhase,
                   stream, fileBoot, saved, saves, dsThread, dsBoot, corrupted>>

\* the client closes the file written there and opens the next one
ClientNewFileAtEnd ==
    /\ probe.phase = "written"
    /\ paramFile' = NewFile(paramFile)
    /\ probe' = [phase |-> "newfile", start |-> probe.start, before |-> paramFile]
    /\ UNCHANGED <<flash, dataStore, dsEventFlags, records, committed, filePhase,
                   stream, fileBoot, saved, saves, dsThread, dsBoot, corrupted>>

InitWrap ==
    /\ MotionInit /\ HeartbeatInit /\ ProbeInit /\ DeviceInit
    /\ TaskInit
    /\ build = "motion_control"
    /\ maxVelocity = DEFAULT_MAX_VELOCITY
    /\ resetRequestCallback = "NULL"
    /\ flash = ErasedFlashToEnd
    /\ paramFile = StoreFile_Init(ErasedFlashToEnd, EXT_FLASH_PARAMETER_FILE_ADDRESS,
                                  EXT_FLASH_PARAMETER_FILE_SIZE)
    /\ dataStore = DataStore_Init(ErasedFlash).dataStore
    /\ RosInit
    /\ dsEventFlags = {}
    /\ records = 0
    /\ committed = [ filePos |-> 0, length |-> 0, crc |-> U32(0), fdbPos |-> 0 ]
    /\ filePhase = "fresh"
    /\ stream = 0
    /\ fileBoot = NoBoot
    /\ saved = DataStoreZero
    /\ saves = 0
    /\ dsBoot = NoBoot
    /\ dsThread = [pc |-> "wait", checked |-> DataStoreZero, differs |-> FALSE,
                   wrote |-> FALSE]

NextWrap ==
    \/ ClientSetWritePos /\ UNCHANGED <<motionVars, hbVars, rosVars, deviceVars, taskVars>>
    \/ ClientWriteAtEnd /\ UNCHANGED <<motionVars, hbVars, rosVars, deviceVars, taskVars>>
    \/ ClientReadBack /\ UNCHANGED <<motionVars, hbVars, rosVars, deviceVars, taskVars>>
    \/ ClientNewFileAtEnd /\ UNCHANGED <<motionVars, hbVars, rosVars, deviceVars, taskVars>>

SpecWrap == InitWrap /\ [][NextWrap]_vars

\* C13 as stated: after a Write of n bytes that crosses the end of the data
\* area, the bytes lie in logical order with wrap-around, length accounts for
\* all n of them, and Read over the same logical positions returns them
C13_WrapWriteReadsBack ==
    (probe.phase = "read" /\ probe.start + Len(probe.data) > DataAreaSize) =>
        /\ W25QXX_Read(flash, (EXT_FLASH_PARAMETER_FILE_ADDRESS + FILE_DESCRIPTION_AREA_SIZE) + probe.start, DataAreaSize - probe.start)
            \o W25QXX_Read(flash, (EXT_FLASH_PARAMETER_FILE_ADDRESS + FILE_DESCRIPTION_AREA_SIZE),
                           Len(probe.data) - (DataAreaSize - probe.start))
                = probe.data
        /\ paramFile.length >= Len(probe.data)
        /\ probe.ret = Len(probe.data)
        /\ probe.buffer = probe.data

\* C31 as stated: fdbPos is a multiple of the size of a file description
\* block and the block at fdbPos ends inside the file description area, and
\* filePos, counted from the start of the file block as StoreFile_Init sets
\* it, lies in the data area [S, B)
C31_FdbPosAndFilePosInBounds ==
    /\ paramFile.fdbPos % SizeofFileDescriptionBlock = 0
    /\ paramFile.fdbPos + SizeofFileDescriptionBlock <= FILE_DESCRIPTION_AREA_SIZE
    /\ paramFile.filePos >= FILE_DESCRIPTION_AREA_SIZE
    /\ paramFile.filePos < EXT_FLASH_PARAMETER_FILE_SIZE

\* C32 as stated: the write position never lies past the end of the data
\* area, so that B - S - writePos, the first part of a wrapping Write, is
\* not negative
C32_WritePosWithinDataArea ==
    paramFile.writePos <= DataAreaSize

(***************************************************************************)
(* The parameter record after DataStore_Init                               *)
(***************************************************************************)
\* C14 as stated: when DataStore_Init could load no record (none stored, or
\* its CRC did not match), every field with a default in system_config.h
\* holds that default, among them state feedback 10 Hz and odometry feedback
\* 20 Hz
C14_DefaultsWhenNoRecord ==
    (dsBoot.ran /\ ~dsBoot.loaded) =>
        /\ dataStore.ipv4 = <<192, 168, 55, 100>>
        /\ dataStore.port = U32(12000)
        /\ dataStore.wheelRadius = F32["0.032"]
        /\ dataStore.trackWidth = F32["0.164"]
        /\ dataStore.pulsePerRevolution = F32["10000.0"]
        /\ dataStore.maxVelocity = F32["1.0"]
        /\ dataStore.maxOmega = F32["2pi"]
        /\ dataStore.stateFeedbackFrequency = F32["10.0"]
        /\ dataStore.odometryFeedbackFrequency = F32["20.0"]

(***************************************************************************)
(* Heartbeat reset requests                                                *)
(***************************************************************************)
\* C16 as stated: every valid HEART_BEAT with reset = 1 invokes the
\* reset-request hook exactly once and is answered with success = 1, reset = 1
C16_ResetInvokesHook ==
    (hbReply.sent /\ hbReply.requested = 1) =>
        /\ hbReply.hookCalls = 1
        /\ hbReply.reset = 1
        /\ hbReply.success = 1

\* C16: a valid HEART_BEAT with reset = 1 that arrives while a reset-request
\* hook is registered invokes it exactly once and is answered with success = 1,
\* reset = 1; while none is registered nothing is invoked and the answer
\* carries success = 1, reset = 0
C16_ResetEchoedIffHookRegistered ==
    (hbReply.sent /\ hbReply.requested = 1) =>
        IF resetRequestCallback # "NULL"
        THEN hbReply.hookCalls = 1 /\ hbReply.reset = 1 /\ hbReply.success = 1
        ELSE hbReply.hookCalls = 0 /\ hbReply.reset = 0 /\ hbReply.success = 1

C16_Witness ==
    /\ hbReply.sent /\ hbReply.requested = 1
    /\ resetRequestCallback = "hook"
    /\ hbReply.hookCalls = 1 /\ hbReply.reset = 1

(***************************************************************************)
(* The ROS interface: the network thread, the ingress task, the egress     *)
(* task                                                                    *)
(***************************************************************************)
\* UdpCallback up to some point of its copy of the source address; an empty
\* datagram is returned before anything is copied
UdpCallbackCopy ==
    /\ udpPending = NoArrival
    /\ \E peer \in { [addr |-> <<192, 168, 55, 1>>, port |-> 5000],
                     [addr |-> <<192, 168, 56, 2>>, port |-> 5001] }, dg \in Datagrams :
        /\ UDP_Callback(rosQueue, dg) # rosQueue => Len(rosQueue) < MaxQueued
        /\ IF dg.size = 0
           THEN /\ lastSource' = [any |-> TRUE, addr |-> peer.addr]
                /\ UNCHANGED <<receivedAddr, udpPending>>
           ELSE /\ \E k \in 0..5 : receivedAddr' = PartialCopy(receivedAddr, peer, k)
                /\ udpPending' = [size |-> dg.size, peer |-> peer, dg |-> dg]
                /\ UNCHANGED lastSource
    /\ rosStep' = [task |-> "UdpCallback", tx |-> << >>]
    /\ UNCHANGED <<rosQueue, incomingCallbackEntrys, feedbackCallbackEntrys,
                   paramsArrived, sinceFire>>

\* the rest of UdpCallback: the copy is completed and UDP_Callback is called
UdpCallbackDeliver ==
    /\ udpPending # NoArrival
    /\ receivedAddr' = PartialCopy(receivedAddr, udpPending.peer, 5)
    /\ rosQueue' = UDP_Callback(rosQueue, udpPending.dg)
    /\ lastSource' = [any |-> TRUE, addr |-> udpPending.peer.addr]
    /\ paramsArrived' = IF udpPending.dg.size = SizeofParametersMessage
                           /\ udpPending.dg.messageType = ROS_CMD_PARAMETERS
                        THEN udpPending.dg
                        ELSE paramsArrived
    /\ udpPending' = NoArrival
    /\ rosStep' = [task |-> "UdpCallback", tx |-> << >>]
    /\ UNCHANGED <<incomingCallbackEntrys, feedbackCallbackEntrys, sinceFire>>

\* ROS_ServiceParameters_Init
ROS_ServiceParameters_Init ==
    /\ \A i \in 1..MAX_INCOMING_CALLBACKS :
            incomingCallbackEntrys[i].callback # "SetParametersCallback"
    /\ incomingCallbackEntrys' = RegisterIncoming(incomingCallbackEntrys,
                                        ROS_CMD_PARAMETERS, "SetParametersCallback")
    /\ rosStep' = [task |-> "ROS_ServiceParameters_Init", tx |-> << >>]
    /\ UNCHANGED <<receivedAddr, udpPending, rosQueue, feedbackCallbackEntrys,
                   lastSource, paramsArrived, sinceFire>>

\* SetIoCallback and ReadIoCallback: whether the request is answered
IoCallbackReplies(msg, messageType) ==
    msg.size = SizeofSetIoMessage /\ msg.messageType = messageType

\* one pass of the loop of IncomingTask: a datagram is taken from the queue
\* and the handler of its type, if there is one, runs on it
IncomingTask ==
    /\ rosQueue # << >>
    /\ LET msg == Head(rosQueue)
           calls == IncomingDispatch(incomingCallbackEntrys, msg)
           callback == IF calls = << >> THEN "NULL" ELSE calls[1].callback
           Done(tx) == rosStep' = [task |-> "IncomingTask", msg |-> msg,
                                   calls |-> calls, tx |-> tx]
       IN  /\ rosQueue' = Tail(rosQueue)
           /\ CASE callback = "HeartBeatCallback" ->
                    /\ HeartBeatCallbackOn(msg)
                    /\ Done(IF HeartBeatAccepted(msg)
                            THEN ROS_Interface_SendBackMessage(receivedAddr, "HeartBeat")
                            ELSE << >>)
                    /\ UNCHANGED <<motionVars, storeVars, taskVars>>
                [] callback = "CmdVelCallback" ->
                    /\ CmdVelCallbackOn(msg)
                    /\ Done(<< >>)
                    /\ UNCHANGED <<hbVars, storeVars, taskVars>>
                [] callback = "SetIoCallback" ->
                    /\ rosStep' =
                         IF IoCallbackReplies(msg, ROS_CMD_SET_IO)
                         THEN [task |-> "IncomingTask", msg |-> msg, calls |-> calls,
                               tx |-> ROS_Interface_SendBackMessage(receivedAddr, "SetIo"),
                               \* IO_Write(msg.ioPinNo, msg.ioValue)
                               ioWrite |-> <<msg.ioPinNo, msg.ioValue # 0>>]
                         ELSE [task |-> "IncomingTask", msg |-> msg, calls |-> calls,
                               tx |-> << >>]
                    /\ UNCHANGED <<motionVars, hbVars, storeVars, taskVars>>
                [] callback = "ReadIoCallback" ->
                    /\ Done(IF IoCallbackReplies(msg, ROS_CMD_READ_IO)
                            THEN ROS_Interface_SendBackMessage(receivedAddr, "ReadIo")
                            ELSE << >>)
                    /\ UNCHANGED <<motionVars, hbVars, storeVars, taskVars>>
                [] callback = "SetParametersCallback" ->
                    /\ (IF (msg.size >= SizeofParametersMessage /\ msg.messageType = ROS_CMD_PARAMETERS)
                        THEN /\ dataStore' = SetParametersCallbackStore(dataStore, msg)
                             /\ dsEventFlags' = dsEventFlags \cup {"EVENT_FLAG_DATA_STORE_MODIFIED"}
                             /\ dsBoot' = NoBoot
                             /\ UNCHANGED <<flash, paramFile, records, committed, filePhase, stream,
                                            fileBoot, saved, saves, dsThread>>
                        ELSE UNCHANGED storeVars)
                    /\ Done(IF (msg.size >= SizeofParametersMessage /\ msg.messageType = ROS_CMD_PARAMETERS)
                            THEN ROS_Interface_SendBackMessage(receivedAddr,
                                                               "FeedbackParameters")
                            ELSE << >>)
                    /\ UNCHANGED <<motionVars, hbVars, taskVars>>
                [] callback = "NULL" ->
                    /\ Done(<< >>)
                    /\ UNCHANGED <<motionVars, hbVars, storeVars, taskVars>>
    /\ UNCHANGED <<receivedAddr, udpPending, incomingCallbackEntrys,
                   feedbackCallbackEntrys, lastSource, paramsArrived, sinceFire>>

\* what the producers called in one pass hand to ROS_Interface_SendBackMessage,
\* entry by entry from i on
RECURSIVE FeedbackSends(_, _, _, _)
FeedbackSends(ticked, hasData, cached, i) ==
    IF i > MAX_FEEDBACK_CALLBACKS THEN << >>
    ELSE (IF ticked[i].invoked /\ hasData[i]
          THEN ROS_Interface_SendBackMessage(cached, ticked[i].entry.callback)
          ELSE << >>)
         \o FeedbackSends(ticked, hasData, cached, i + 1)

\* one pass of the loop of FeedbackTask, CHECK_FEEDBACK_PERIOD after the
\* one before
FeedbackTask ==
    /\ \E odometry \in BOOLEAN :
        LET ticked == [ i \in 1..MAX_FEEDBACK_CALLBACKS |->
                            FeedbackEntryTick(feedbackCallbackEntrys[i]) ]
            hasData == [ i \in 1..MAX_FEEDBACK_CALLBACKS |->
                            IF feedbackCallbackEntrys[i].callback = "PrepareOdomMessage"
                            THEN odometry ELSE TRUE ]
        IN  /\ feedbackCallbackEntrys' =
                    [ i \in 1..MAX_FEEDBACK_CALLBACKS |-> ticked[i].entry ]
            /\ sinceFire' = [ i \in 1..MAX_FEEDBACK_CALLBACKS |->
                                IF ticked[i].invoked
                                   \/ feedbackCallbackEntrys[i].callback = "NULL"
                                THEN 0 ELSE sinceFire[i] + 1 ]
            /\ rosStep' = [ task |-> "FeedbackTask",
                            invoked |-> { i \in 1..MAX_FEEDBACK_CALLBACKS :
                                            ticked[i].invoked },
                            elapsed |-> [ i \in 1..MAX_FEEDBACK_CALLBACKS |->
                                            sinceFire[i] + 1 ],
                            before |-> feedbackCallbackEntrys,
                            tx |-> FeedbackSends(ticked, hasData, receivedAddr, 1) ]
    /\ UNCHANGED <<receivedAddr, udpPending, rosQueue, incomingCallbackEntrys,
                   lastSource, paramsArrived>>

NextRos ==
    \/ UdpCallbackCopy /\ UNCHANGED <<motionVars, hbVars, storeVars, probeVars, deviceVars, taskVars>>
    \/ UdpCallbackDeliver
          /\ UNCHANGED <<motionVars, hbVars, storeVars, probeVars, deviceVars, taskVars>>
    \/ ROS_ServiceParameters_Init
          /\ UNCHANGED <<motionVars, hbVars, storeVars, probeVars, deviceVars, taskVars>>
    \/ IncomingTask /\ UNCHANGED <<probeVars, deviceVars, taskVars>>
    \/ DataStore_SetWheelRadius
          /\ UNCHANGED <<motionVars, hbVars, probeVars, rosVars, deviceVars, taskVars>>
    \/ DataStore_SetTrackWidth
          /\ UNCHANGED <<motionVars, hbVars, probeVars, rosVars, deviceVars, taskVars>>

\* the ROS interface after ROS_Interface_Init: arrivals, the ingress task, and
\* a client of the geometry setters
SpecRos == InitChassis /\ [][NextRos]_vars

\* C15: once a well-formed CMD_PARAMETERS request has arrived on the
\* endpoint and the ingress task has nothing left to handle, the parameter
\* store holds the values the request carried and a save has been requested
C15_ParametersRequestUpdatesStore ==
    (paramsArrived # [size |-> 0] /\ udpPending = NoArrival /\ rosQueue = << >>)
        => /\ dataStore = SetParametersCallbackStore(dataStore, paramsArrived)
           /\ "EVENT_FLAG_DATA_STORE_MODIFIED" \in dsEventFlags

\* C17: every datagram the interface transmits goes to the source address of
\* the most recently received datagram (the one being taken in, if one is), at
\* the fixed remote port; nothing is transmitted before a datagram was received
C17_RepliesGoToLatestSource ==
    \A i \in 1..Len(rosStep.tx) :
        /\ rosStep.tx[i].port = DEFAULT_REMOTE_UDP_PORT
        /\ \/ lastSource.any /\ rosStep.tx[i].addr = lastSource.addr
           \/ udpPending # NoArrival /\ rosStep.tx[i].addr = udpPending.peer.addr

\* C18: a datagram taken from the queue whose type tag has a registered
\* handler is handed, once, with its bytes and its length, to the first handler
\* registered for that tag and to no other; one whose tag has no registered
\* handler is handed to none
C18_DispatchToRegisteredHandler ==
    rosStep.task = "IncomingTask" =>
        LET msg == rosStep.msg
            registered == { i \in 1..MAX_INCOMING_CALLBACKS :
                              incomingCallbackEntrys[i].callback # "NULL"
                              /\ incomingCallbackEntrys[i].msgType = msg.messageType }
        IN  IF registered = {}
            THEN rosStep.calls = << >>
            ELSE /\ Len(rosStep.calls) = 1
                 /\ rosStep.calls[1].entry \in registered
                 /\ \A i \in registered : rosStep.calls[1].entry <= i
                 /\ rosStep.calls[1].callback =
                        incomingCallbackEntrys[rosStep.calls[1].entry].callback
                 /\ rosStep.calls[1].data = msg
                 /\ rosStep.calls[1].size = msg.size

\* a velocity command was handed to CmdVelCallback, the second entry
C18_Witness ==
    /\ rosStep.task = "IncomingTask"
    /\ rosStep.msg.messageType = ROS_CMD_VELOCITY
    /\ Len(rosStep.calls) = 1
    /\ rosStep.calls[1].callback = "CmdVelCallback"
    /\ cmdVel = [velocity |-> 500, omega |-> -1000]

\* C35: when the ingress task has handed a HEART_BEAT, CMD_VELOCITY or SET_IO
\* request to its handler and the size of the request is not the size of the
\* record the handler expects, the heartbeat time and host-alive, the stored
\* command velocity are as before, no pin was written and nothing was sent
C35_SizeMismatchLeavesState ==
    [][ ( /\ rosQueue' # rosQueue
          /\ rosStep'.task = "IncomingTask"
          /\ rosStep'.calls # << >>
          /\ \/ /\ rosStep'.calls[1].callback = "HeartBeatCallback"
                /\ rosStep'.msg.size # SizeofHeartBeatMessage
             \/ /\ rosStep'.calls[1].callback = "CmdVelCallback"
                /\ rosStep'.msg.size # SizeofVelocityMessage
             \/ /\ rosStep'.calls[1].callback = "SetIoCallback"
                /\ rosStep'.msg.size # SizeofSetIoMessage )
        => /\ UNCHANGED <<lastHeartbeatTime, isUpperMachineAlive, hbReceived,
                          cmdVel, lastAccepted>>
           /\ rosStep'.tx = << >>
           /\ "ioWrite" \notin DOMAIN rosStep' ]_vars

\* a SET_IO request of 16 bytes went to SetIoCallback while the address for
\* replies was known, and nothing was written or sent
C35_Witness_ShortSetIoIgnored ==
    /\ rosStep.task = "IncomingTask"
    /\ rosStep.calls # << >>
    /\ rosStep.calls[1].callback = "SetIoCallback"
    /\ rosStep.msg.size # SizeofSetIoMessage
    /\ receivedAddr.port # 0
    /\ rosStep.tx = << >>
    /\ "ioWrite" \notin DOMAIN rosStep

(***************************************************************************)
(* The egress task and its producers                                       *)
(***************************************************************************)
\* a client calls ROS_Interface_RegisterFeedbackCallback(period, callback)
ROS_Interface_RegisterFeedbackCallback ==
    /\ Cardinality({ i \in 1..MAX_FEEDBACK_CALLBACKS :
                        feedbackCallbackEntrys[i].callback
                            \notin { "PrepareChassisStateMessage",
                                      "PrepareOdomMessage", "NULL" } }) < MaxProducers
    /\ \E period \in {0, 5, 25} :
        feedbackCallbackEntrys' =
            RegisterFeedback(feedbackCallbackEntrys, period, "PrepareMessage")
    /\ rosStep' = [task |-> "ROS_Interface_RegisterFeedbackCallback", tx |-> << >>]
    /\ UNCHANGED <<receivedAddr, udpPending, rosQueue, incomingCallbackEntrys,
                   lastSource, paramsArrived, sinceFire>>

NextFeedback ==
    \/ ROS_Interface_RegisterFeedbackCallback
          /\ UNCHANGED <<motionVars, hbVars, storeVars, probeVars, deviceVars, taskVars>>
    \/ FeedbackTask /\ UNCHANGED <<motionVars, hbVars, storeVars, probeVars, deviceVars, taskVars>>

SpecFeedback == InitChassis /\ [][NextFeedback]_vars

C20_MoveReachesChassis ==
    (mcTick.ran /\ mcTick.moved # << >> /\ mcTick.autoPilot)
        => /\ mcTick.calls = << mcTick.moved >>
           /\ mcCmd = mcTick.moved

\* C26 as stated: on flash that was factory-fresh when the client began, the
\* payload of every committed record n is at the filePos of its FDB, which is
\* in slot n - 1 and counts from the start of the file block (4096 is the
\* first byte of the data area): committing later records has left it there
\* (records within the first DataWindow bytes of the data area)
C26_PayloadStaysAtFilePos ==
    (filePhase = "committed" /\ records < PreRecords) =>
        \A n \in 1..records :
            LET filePos == U32Value(FdbAt(flash, FdbSlotAddress(n - 1)).filePos)
            IN  ( /\ filePos >= FILE_DESCRIPTION_AREA_SIZE
                  /\ filePos + Len(Payload(stream, n))
                        <= FILE_DESCRIPTION_AREA_SIZE + DataWindow ) =>
                    W25QXX_Read(flash, EXT_FLASH_PARAMETER_FILE_ADDRESS + filePos,
                                Len(Payload(stream, n)))
                        = Payload(stream, n)

\* C27 as stated: the slots of the FDA whose header is the magic are slot 0
\* and its successors, without a gap
C27_WrittenSlotsFormPrefix ==
    \A k \in WrittenSlots(flash) : k = 0 \/ (k - 1) \in WrittenSlots(flash)

\* C28 as stated, as the result of a served request: whenever the save task
\* goes back to its wait, after a save or after a pass that found nothing to
\* save, an FDB in flash carries the CRC and the length of the record then in
\* memory and the data area holds its bytes where Read takes them from (the
\* save task writes no slot beyond MaxSaves + 1)
C28_ServedRequestIsInFlash ==
    [][ ( /\ ~dsBoot'.ran
          /\ dsThread'.pc = "wait"
          /\ \/ dsThread.pc = "save"
             \/ /\ "EVENT_FLAG_DATA_STORE_MODIFIED" \in dsEventFlags
                /\ "EVENT_FLAG_DATA_STORE_MODIFIED" \notin dsEventFlags' ) =>
            /\ W25QXX_Read(flash', (EXT_FLASH_PARAMETER_FILE_ADDRESS + FILE_DESCRIPTION_AREA_SIZE), SizeofDataStore)
                   = DataStoreBytes(dataStore')
            /\ \E k \in 0..(MaxSaves + 1) :
                LET fdb == FdbAt(flash', FdbSlotAddress(k))
                IN  /\ fdb.fdbHeader = FILE_DESCRIPTION_BLOCK_HEADER
                    /\ fdb.length = U32(SizeofDataStore)
                    /\ fdb.fileCRC = Crc32(CRC32_INITIAL_VALUE,
                                           DataStoreBytes(dataStore')) ]_vars

C30_WrittenRecordIsCheckedRecord ==
    dsThread.wrote => saved = dsThread.checked

\* C23 as stated: the wheel radius, the track width and the pulses per
\* revolution in the store are strictly positive floats (sign bit clear, not
\* zero) in every state
C23_GeometryStrictlyPositive ==
    \A f \in {dataStore.wheelRadius, dataStore.trackWidth, dataStore.pulsePerRevolution} :
        f[4] < 128 /\ f # U32(0)

(***************************************************************************)
(* Wheel drive: two_wheel_differential.c, two_wheel_kinematic.c,           *)
(* dc_motor.c, pid.c                                                       *)
(***************************************************************************)
MaxPeriods == 3

\* TwoWheelDifferentialKinematic_Inverse for wheel radius r and track width t:
\* the angular speeds of the left and the right wheel
TwoWheelDifferentialKinematic_Inverse(velocity, omega, r, t) ==
    LET leftWheelSpeed == velocity - MulF(t \div 2, omega)
        rightWheelSpeed == velocity + MulF(t \div 2, omega)
    IN  [ i \in 0..(TOTAL_MOTOR_NUMBER - 1) |->
            IF i = 0 THEN DivF(leftWheelSpeed, r) ELSE DivF(rightWheelSpeed, r) ]

\* PID_Calc without its two clamping lines: the controller afterwards, and ten
\* times the float returned
PID_Calc_Unclamped(p, measurement) ==
    LET error == p.object - measurement
        differentialError == error - p.lastError
        sumError == p.sumError + error
    IN  [ pid |-> [object |-> p.object, sumError |-> sumError, lastError |-> error],
          \* errors are carried times Scale: a gain over Scale / 10 gives ten
          \* times the float
          out |-> (KP \div 100) * error + (KI \div 100) * sumError
                  + (KD \div 100) * differentialError ]

\* PID_Calc
PID_Calc(p, measurement) ==
    LET error == p.object - measurement
        differentialError == error - p.lastError
        sum == p.sumError + error
        sumError == IF sum > MAX_SUM_ERROR * Scale THEN MAX_SUM_ERROR * Scale
                    ELSE IF sum < -(MAX_SUM_ERROR * Scale) THEN -(MAX_SUM_ERROR * Scale)
                    ELSE sum
    IN  [ pid |-> [object |-> p.object, sumError |-> sumError, lastError |-> error],
          \* errors are carried times Scale: a gain over Scale / 10 gives ten
          \* times the float
          out |-> (KP \div 100) * error + (KI \div 100) * sumError
                  + (KD \div 100) * differentialError ]

\* ChassisTwoWheelDifferential_SetMotion(velocity, omega): inverse kinematics
\* with the stored geometry, then DCMotor_SetAngularSpeed, which is
\* PID_SetObject, for each wheel
ChassisTwoWheelDifferential_SetMotion ==
    \E cmd \in { <<0, 0>>, <<500, 1000>>, <<2000, 8000>> } :
        LET velocity == cmd[1]
            omega == cmd[2]
            wheelRadius == CASE dataStore.wheelRadius = F32["0.032"] -> 32
            trackWidth == CASE dataStore.trackWidth = F32["0.164"] -> 164
            wheelAngularSpeed ==
                TwoWheelDifferentialKinematic_Inverse(velocity, omega, wheelRadius,
                                                      trackWidth)
        IN  /\ pid' = [ i \in 0..(TOTAL_MOTOR_NUMBER - 1) |->
                          [pid[i] EXCEPT !.object = wheelAngularSpeed[i]] ]
            /\ driveStep' = [ op |-> "SetMotion", velocity |-> velocity, omega |-> omega,
                              before |-> pid ]
            /\ UNCHANGED <<measuredAngularSpeed, pwmOut, pwmOutMean, periods, memPool,
                           poolStep>>

\* an encoder edge of one motor leaves a new filtered speed in
\* measuredAngularSpeed (InputCaptureCallback), or the overflow of its capture
\* timer zeroes it (EncoderCaptureOverflowCallback)
InputCaptureCallback ==
    \E motorID \in 0..(TOTAL_MOTOR_NUMBER - 1) :
        \E speed \in { 0, -(MAX_SUM_ERROR * Scale) } :
            /\ measuredAngularSpeed[motorID] # speed
            /\ measuredAngularSpeed' = [measuredAngularSpeed EXCEPT ![motorID] = speed]
            /\ driveStep' = [op |-> "InputCapture"]
            /\ UNCHANGED <<pid, pwmOut, pwmOutMean, periods, memPool, poolStep>>

\* PeriodCallback: one control period of both motors
PeriodCallback ==
    /\ periods < MaxPeriods
    /\ LET calc == [ i \in 0..(TOTAL_MOTOR_NUMBER - 1) |->
                       PID_Calc(pid[i], measuredAngularSpeed[i]) ]
           out == [ i \in 0..(TOTAL_MOTOR_NUMBER - 1) |->
                      LET o == (IF (calc[i].out) >= 0 THEN (calc[i].out) \div 10 ELSE -((-(calc[i].out)) \div 10))
                      IN  IF o > PWM_LIMIT THEN PWM_LIMIT
                          ELSE IF o < -PWM_LIMIT THEN -PWM_LIMIT
                          ELSE o ]
       IN  /\ pid' = [i \in 0..(TOTAL_MOTOR_NUMBER - 1) |-> calc[i].pid]
           /\ pwmOut' = out
           /\ driveStep' = [ op |-> "Period",
                             error |-> [ i \in 0..(TOTAL_MOTOR_NUMBER - 1) |->
                                           pid[i].object - measuredAngularSpeed[i] ],
                             \* sumError + error, before the clamp
                             sum |-> [ i \in 0..(TOTAL_MOTOR_NUMBER - 1) |->
                                         pid[i].sumError + pid[i].object
                                             - measuredAngularSpeed[i] ],
                             \* the argument of Timer_SetPWM
                             pwm |-> [ i \in 0..(TOTAL_MOTOR_NUMBER - 1) |->
                                         out[i] + pwmOutMean[i] ] ]
           /\ pwmOutMean' = [ i \in 0..(TOTAL_MOTOR_NUMBER - 1) |->
                                (IF (9 * pwmOutMean[i] + out[i]) >= 0 THEN (9 * pwmOutMean[i] + out[i]) \div 10 ELSE -((-(9 * pwmOutMean[i] + out[i])) \div 10)) ]
    /\ periods' = periods + 1
    /\ UNCHANGED <<measuredAngularSpeed, memPool, poolStep>>

NextDrive ==
    \/ ChassisTwoWheelDifferential_SetMotion
          /\ UNCHANGED <<motionVars, hbVars, storeVars, probeVars, rosVars, taskVars>>
    \/ InputCaptureCallback
          /\ UNCHANGED <<motionVars, hbVars, storeVars, probeVars, rosVars, taskVars>>
    \/ PeriodCallback /\ UNCHANGED <<motionVars, hbVars, storeVars, probeVars, rosVars, taskVars>>

SpecDrive == InitChassis /\ [][NextDrive]_vars

\* C21 as stated: the (v, omega) from which SetMotion computes the wheel
\* targets lies within the per-axis maxima that
\* ChassisTwoWheelDifferential_Init loaded from the store
C21_SetMotionClampsCommand ==
    driveStep.op = "SetMotion" =>
        /\ driveStep.velocity <= DEFAULT_MAX_VELOCITY
        /\ driveStep.velocity >= -DEFAULT_MAX_VELOCITY
        /\ driveStep.omega <= DEFAULT_MAX_OMEGA
        /\ driveStep.omega >= -DEFAULT_MAX_OMEGA

\* C22 as stated: the signed PWM command of every motor that a control period
\* hands to the timer lies within [-65536, 65536]
C22_PwmWithinRange ==
    driveStep.op = "Period" =>
        \A i \in 0..(TOTAL_MOTOR_NUMBER - 1) :
            driveStep.pwm[i] <= PWM_LIMIT /\ driveStep.pwm[i] >= -PWM_LIMIT

MaxHeld == 4

\* MemPool_Alloc taking the first bucket that is larger than the request
MemPool_Alloc_LargerBucket ==
    /\ Cardinality(UNION { {i} \X memPool[i].used : i \in 1..MEMPOOL_TYPES }) < MaxHeld
    /\ \E size \in {0, 1, 128, 129, 2048, 4096, 4097} :
        LET fits == { i \in 1..MEMPOOL_TYPES : size < memPool[i].memSize }
            i == CHOOSE k \in fits : \A j \in fits : k <= j
            free == IF fits = {} THEN {}
                    ELSE (1..memPool[i].memPoolObjects) \ memPool[i].used
            block == CHOOSE k \in free : \A j \in free : k <= j
        IN  /\ memPool' = IF free = {} THEN memPool
                          ELSE [memPool EXCEPT ![i].used = @ \cup {block}]
            /\ poolStep' = [ op |-> "alloc", size |-> size,
                             ret |-> IF free = {} THEN [pool |-> 0, block |-> 0]
                                     ELSE [pool |-> i, block |-> block],
                             before |-> [k \in 1..MEMPOOL_TYPES |-> memPool[k].used] ]
    /\ UNCHANGED <<pid, measuredAngularSpeed, pwmOut, pwmOutMean, periods, driveStep>>

\* MemPool_Alloc(size): osMemoryPoolAlloc with timeout 0 on the first bucket
\* that the request fits, NULL (pool 0) when it fits none; the kernel pool
\* gives NULL when it has no free block, else a free block (here the lowest)
MemPool_Alloc ==
    /\ Cardinality(UNION { {i} \X memPool[i].used : i \in 1..MEMPOOL_TYPES }) < MaxHeld
    /\ \E size \in {0, 1, 128, 129, 2048, 4096, 4097} :
        LET fits == { i \in 1..MEMPOOL_TYPES : size <= memPool[i].memSize }
            i == CHOOSE k \in fits : \A j \in fits : k <= j
            free == IF fits = {} THEN {}
                    ELSE (1..memPool[i].memPoolObjects) \ memPool[i].used
            block == CHOOSE k \in free : \A j \in free : k <= j
        IN  /\ memPool' = IF free = {} THEN memPool
                          ELSE [memPool EXCEPT ![i].used = @ \cup {block}]
            /\ poolStep' = [ op |-> "alloc", size |-> size,
                             ret |-> IF free = {} THEN [pool |-> 0, block |-> 0]
                                     ELSE [pool |-> i, block |-> block],
                             before |-> [k \in 1..MEMPOOL_TYPES |-> memPool[k].used] ]
    /\ UNCHANGED <<pid, measuredAngularSpeed, pwmOut, pwmOutMean, periods, driveStep>>

\* MemPool_Free(ptr) of a block in use, or of NULL: osMemoryPoolFree on each
\* kernel pool in turn until one takes the block, which is the one it is in
MemPool_Free ==
    \E ptr \in UNION { { [pool |-> i, block |-> k] : k \in memPool[i].used } :
                         i \in 1..MEMPOOL_TYPES } \cup { [pool |-> 0, block |-> 0] } :
        LET owners == { i \in 1..MEMPOOL_TYPES :
                          ptr.pool = i /\ ptr.block \in memPool[i].used }
        IN  /\ memPool' = [ i \in 1..MEMPOOL_TYPES |->
                              IF i \in owners
                              THEN [memPool[i] EXCEPT !.used = @ \ {ptr.block}]
                              ELSE memPool[i] ]
            /\ poolStep' = [ op |-> "free", ptr |-> ptr, ret |-> owners # {},
                             before |-> [k \in 1..MEMPOOL_TYPES |-> memPool[k].used] ]
            /\ UNCHANGED <<pid, measuredAngularSpeed, pwmOut, pwmOutMean, periods,
                           driveStep>>

NextPool ==
    \/ MemPool_Alloc /\ UNCHANGED <<motionVars, hbVars, storeVars, probeVars, rosVars, taskVars>>
    \/ MemPool_Free /\ UNCHANGED <<motionVars, hbVars, storeVars, probeVars, rosVars, taskVars>>

SpecPool == InitChassis /\ [][NextPool]_vars

\* C25: MemPool_Alloc(size) returns NULL or a block of the smallest bucket
\* whose block size is at least size, NULL for a size above 4096, never a
\* block that is in use, and the block it returns is then in use; MemPool_Free
\* of a block in use takes it out of use in the bucket it came from and leaves
\* every other block as it was
C25_AllocFreeContract ==
    /\ poolStep.op = "alloc" =>
        /\ poolStep.size > 4096 => poolStep.ret.pool = 0
        /\ poolStep.ret.pool # 0 =>
            /\ memPool[poolStep.ret.pool].memSize >= poolStep.size
            /\ \A i \in 1..MEMPOOL_TYPES :
                memPool[i].memSize >= poolStep.size =>
                    memPool[i].memSize >= memPool[poolStep.ret.pool].memSize
            /\ poolStep.ret.block \in 1..memPool[poolStep.ret.pool].memPoolObjects
            /\ poolStep.ret.block \notin poolStep.before[poolStep.ret.pool]
            /\ \A i \in 1..MEMPOOL_TYPES :
                memPool[i].used = IF i = poolStep.ret.pool
                                  THEN poolStep.before[i] \cup {poolStep.ret.block}
                                  ELSE poolStep.before[i]
        /\ poolStep.ret.pool = 0 =>
            \A i \in 1..MEMPOOL_TYPES : memPool[i].used = poolStep.before[i]
    /\ (poolStep.op = "free" /\ poolStep.ptr.pool # 0) =>
        /\ poolStep.ret
        /\ \A i \in 1..MEMPOOL_TYPES :
            memPool[i].used = IF i = poolStep.ptr.pool
                              THEN poolStep.before[i] \ {poolStep.ptr.block}
                              ELSE poolStep.before[i]
    /\ \A i \in 1..MEMPOOL_TYPES :
        /\ memPool[i].memSize = 128 * (2 ^ (i - 1))
        /\ memPool[i].used \subseteq 1..memPool[i].memPoolObjects

\* the first 4096-byte block was freed while the second was in use, and a
\* request for 4096 bytes has got it again
C25_Witness_FreedBlockAllocatedAgain ==
    /\ poolStep.op = "alloc"
    /\ poolStep.size = 4096
    /\ poolStep.ret = [pool |-> 6, block |-> 1]
    /\ poolStep.before[6] = {2}
    /\ memPool[6].used = {1, 2}

(***************************************************************************)
(* Devices/rc_receiver.c with the receiver task and a reader of the radio  *)
(* state taken one access at a time                                        *)
(***************************************************************************)
\* RC_Receiver_Process, one step of the receiver task: it takes a frame from
\* its queue and parses it; Get_WFLY_Receiver_Values then stores the fields of
\* the static receiverValue in the order of its assignments; the registered
\* callbacks run last
RC_Receiver_ProcessStep ==
    LET fields == <<"steering", "throttle", "autoMode", "failSafe", "frameLost">>
    IN
    /\ CASE rcTask.pc = "wait" ->
              \E frame \in
                  { [ header |-> S_BUS_HEADER, ch1 |-> MID_RECEIVER_CHANNEL_VALUE,
                      ch3 |-> MID_RECEIVER_CHANNEL_VALUE + MAX_RECEIVER_CHANNEL_SHIFT,
                      ch5 |-> 0, failsafe |-> 0, frameLost |-> 0 ],
                    [ header |-> S_BUS_HEADER,
                      ch1 |-> MID_RECEIVER_CHANNEL_VALUE - MAX_RECEIVER_CHANNEL_SHIFT,
                      ch3 |-> MID_RECEIVER_CHANNEL_VALUE - MAX_RECEIVER_CHANNEL_SHIFT,
                      ch5 |-> MID_RECEIVER_CHANNEL_VALUE + 1,
                      failsafe |-> 1, frameLost |-> 1 ],
                    [ header |-> 0,
                      ch1 |-> MID_RECEIVER_CHANNEL_VALUE - MAX_RECEIVER_CHANNEL_SHIFT,
                      ch3 |-> MID_RECEIVER_CHANNEL_VALUE - MAX_RECEIVER_CHANNEL_SHIFT,
                      ch5 |-> MID_RECEIVER_CHANNEL_VALUE + 1,
                      failsafe |-> 1, frameLost |-> 1 ] } :
                  /\ rcTask' = [ pc |-> IF S_BUS_Parse(frame).ok THEN "store" ELSE "wait",
                                 frame |-> frame, stored |-> 0, called |-> FALSE,
                                 before |-> receiverValue, mcBefore |-> mc ]
                  /\ UNCHANGED <<receiverValue, frameDecoded, mc>>
         [] rcTask.pc = "store" ->
              LET rv == Get_WFLY_Receiver_Values(S_BUS_Parse(rcTask.frame))
                  f == fields[rcTask.stored + 1]
              IN  /\ receiverValue' = [receiverValue EXCEPT ![f] = rv[f]]
                  /\ rcTask' = [rcTask EXCEPT
                                  !.stored = @ + 1,
                                  !.pc = IF rcTask.stored + 1 = Len(fields)
                                         THEN "callbacks" ELSE "store"]
                  /\ UNCHANGED <<frameDecoded, mc>>
         [] rcTask.pc = "callbacks" ->
              /\ mc' = IF build = "motion_control"
                       THEN ReceiverCallback(mc, receiverValue, maxVelocity, maxOmega)
                       ELSE mc
              /\ frameDecoded' = TRUE
              /\ rcTask' = [rcTask EXCEPT !.pc = "wait", !.called = TRUE]
              /\ UNCHANGED receiverValue
    /\ UNCHANGED <<build, cmdVel, lastAccepted, maxVelocity, maxOmega, isAutoMode,
                   chassisCmd, tick, mcFlags, mcCmd, mcTick>>
    /\ UNCHANGED <<hbTimer, rcReader, cvTask, cvReader>>

\* Receiver_Read, one step of a caller in another task: the return by value
\* copies the static receiverValue, here field by field
Receiver_ReadStep ==
    LET fields == <<"steering", "throttle", "autoMode", "failSafe", "frameLost">>
        copied == IF rcReader.pc = "copy" THEN rcReader.snap ELSE << >>
        snap == Append(copied, receiverValue[fields[Len(copied) + 1]])
    IN  /\ rcReader' = [ pc |-> IF Len(snap) = Len(fields) THEN "done" ELSE "copy",
                         snap |-> snap ]
        /\ UNCHANGED <<hbTimer, rcTask, cvTask, cvReader>>

NextRadio ==
    \/ RC_Receiver_ProcessStep
          /\ UNCHANGED <<hbVars, storeVars, probeVars, rosVars, deviceVars>>
    \/ Receiver_ReadStep
          /\ UNCHANGED <<motionVars, hbVars, storeVars, probeVars, rosVars, deviceVars>>

SpecRadio == Init /\ [][NextRadio]_vars

\* C34: when the receiver task has taken a frame whose first byte is not
\* 0x0F, it is back at its queue with the radio state and the statics of the
\* consumer as they were when it took the frame, and no callback was called
C34_BadHeaderDiscarded ==
    (rcTask.pc = "wait" /\ "frame" \in DOMAIN rcTask
        /\ rcTask.frame.header # S_BUS_HEADER) =>
            /\ receiverValue = rcTask.before
            /\ mc = rcTask.mcBefore
            /\ ~rcTask.called
            /\ rcTask.stored = 0

\* a frame with a wrong first byte was discarded after a valid frame had set
\* failSafe and frameLost, which are still set
C34_Witness_DiscardedAfterValidFrame ==
    /\ rcTask.pc = "wait" /\ "frame" \in DOMAIN rcTask
    /\ rcTask.frame.header # S_BUS_HEADER
    /\ frameDecoded
    /\ receiverValue.failSafe /\ receiverValue.frameLost

\* C36 as stated: the valid frame with ch1 = 1024, ch3 = 1024 + 671, ch5 = 0
\* and no flag leaves steering = 0, throttle = 1.0 and autoMode = false
C36_FullThrottleAtUpperEnd ==
    (rcTask.pc = "wait" /\ "frame" \in DOMAIN rcTask /\ rcTask.called
        /\ rcTask.frame.header = S_BUS_HEADER
        /\ rcTask.frame.ch1 = MID_RECEIVER_CHANNEL_VALUE
        /\ rcTask.frame.ch3 = MID_RECEIVER_CHANNEL_VALUE + MAX_RECEIVER_CHANNEL_SHIFT
        /\ rcTask.frame.ch5 = 0) =>
            /\ receiverValue.steering = 0
            /\ receiverValue.throttle = Scale
            /\ ~receiverValue.autoMode

\* C38 as stated: a snapshot a caller of Receiver_Read has got is the radio
\* state before any frame or the values decoded from one frame
C38_SnapshotFromOneFrame ==
    rcReader.pc = "done" =>
        \E rv \in { [ steering |-> 0, throttle |-> 0, autoMode |-> FALSE,
                       failSafe |-> FALSE, frameLost |-> FALSE ] }
                   \cup { Get_WFLY_Receiver_Values(S_BUS_Parse(frame)) :
                            frame \in { f \in Frames \cup
                                             [ header : {S_BUS_HEADER},
                                               ch1 : {MID_RECEIVER_CHANNEL_VALUE},
                                               ch3 : ChannelChoices, ch5 : {0},
                                               failsafe : {0}, frameLost : {0} ] :
                                           f.header = S_BUS_HEADER } } :
            rcReader.snap = << rv.steering, rv.throttle, rv.autoMode, rv.failSafe,
                               rv.frameLost >>

(***************************************************************************)
(* ROS_Interface/ros_subscriber_cmd_vel.c with the handler in the ingress  *)
(* task and the reader in the supervisor taken one access at a time        *)
(***************************************************************************)
\* CmdVelCallback, one step of the ingress task: the size and type checks and
\* the store of velocity, then the store of omega
CmdVelCallbackStep ==
    /\ CASE cvTask.pc = "wait" ->
              \E msg \in VelocityMessages :
                  IF msg.size # SizeofVelocityMessage \/ msg.messageType # ROS_CMD_VELOCITY
                  THEN /\ cvTask' = [cvTask EXCEPT !.pc = "wait"]
                       /\ UNCHANGED <<cmdVel, lastAccepted>>
                  ELSE /\ cmdVel' = [cmdVel EXCEPT !.velocity = msg.velocity]
                       /\ cvTask' = [ pc |-> "omega", msg |-> msg,
                                      seen |-> cvTask.seen
                                                 \cup {<<msg.velocity, msg.omega>>} ]
                       /\ UNCHANGED lastAccepted
         [] cvTask.pc = "omega" ->
              /\ cmdVel' = [cmdVel EXCEPT !.omega = cvTask.msg.omega]
              /\ lastAccepted' = <<cvTask.msg.velocity, cvTask.msg.omega>>
              /\ cvTask' = [pc |-> "wait", seen |-> cvTask.seen]
    /\ UNCHANGED <<build, receiverValue, frameDecoded, maxVelocity, maxOmega, isAutoMode,
                   chassisCmd, tick, mc, mcFlags, mcCmd, mcTick>>
    /\ UNCHANGED <<hbTimer, rcTask, rcReader, cvReader>>

\* ROS_SubscriberCmdVel_ReadVelocity, one step of the supervisor's call: the
\* copy of velocity, then the copy of omega
ReadVelocityStep ==
    /\ cvReader' = IF cvReader.pc = "copy"
                   THEN [ pc |-> "done", snap |-> <<cvReader.vel, cmdVel.omega>> ]
                   ELSE [ pc |-> "copy", vel |-> cmdVel.velocity ]
    /\ UNCHANGED <<hbTimer, rcTask, rcReader, cvTask>>

NextCmdVel ==
    \/ CmdVelCallbackStep
          /\ UNCHANGED <<hbVars, storeVars, probeVars, rosVars, deviceVars>>
    \/ ReadVelocityStep
          /\ UNCHANGED <<motionVars, hbVars, storeVars, probeVars, rosVars, deviceVars>>

SpecCmdVel == Init /\ [][NextCmdVel]_vars

\* C39 as stated: a pair a caller of ROS_SubscriberCmdVel_ReadVelocity has got
\* is the initial (0, 0) or the velocity and omega of one CMD_VELOCITY message
\* the handler has accepted
C39_PairFromOneMessage ==
    cvReader.pc = "done" => cvReader.snap \in {<<0, 0>>} \cup cvTask.seen

(***************************************************************************)
(* DataStore/store_file.c: CalculateCRC with its scratch block, beside     *)
(* other users of the pool and a client that writes and reads the file     *)
(***************************************************************************)
\* the client calls Read for the next four bytes of the file
ClientRead ==
    /\ filePhase = "written"
    /\ paramFile' = Read(flash, paramFile, 4).file
    /\ UNCHANGED <<flash, dataStore, dsEventFlags, records, committed, filePhase,
                   stream, fileBoot, saved, saves, dsThread, dsBoot>>

\* variant: readPos is left where the loop ended
FileCalculateCRC_NoRestore ==
    LET fits == { i \in 1..MEMPOOL_TYPES : MEM_BLOCK_SIZE <= memPool[i].memSize }
        i == CHOOSE k \in fits : \A j \in fits : k <= j
        free == (1..memPool[i].memPoolObjects) \ memPool[i].used
        block == CHOOSE k \in free : \A j \in free : k <= j
        held == [memPool EXCEPT ![i].used = @ \cup {block}]
        run == [ crc |-> CalculateCRC(flash, paramFile),
                 file |-> CalculateCRCFile(flash, [paramFile EXCEPT !.readPos = 0],
                                           paramFile.length) ]
    IN  /\ IF free = {}
           THEN /\ poolStep' = [ op |-> "crc", buff |-> [pool |-> 0, block |-> 0],
                                 ret |-> U32(0), file |-> paramFile,
                                 before |-> [k \in 1..MEMPOOL_TYPES |-> memPool[k].used] ]
                /\ UNCHANGED <<paramFile, memPool>>
           ELSE /\ paramFile' = run.file
                /\ memPool' = [held EXCEPT ![i].used = @ \ {block}]
                /\ poolStep' = [ op |-> "crc", buff |-> [pool |-> i, block |-> block],
                                 ret |-> run.crc, file |-> paramFile,
                                 before |-> [k \in 1..MEMPOOL_TYPES |-> memPool[k].used] ]
        /\ UNCHANGED <<flash, dataStore, dsEventFlags, records, committed, filePhase,
                       stream, fileBoot, saved, saves, dsThread, dsBoot>>
        /\ UNCHANGED <<pid, measuredAngularSpeed, pwmOut, pwmOutMean, periods, driveStep>>

\* CalculateCRC(file): MemPool_Alloc(2048) takes a block of the first bucket
\* that holds 2048 bytes; without a block the call returns 0 at once; with it,
\* readPos is saved and set to 0, the loop reads the file through the block,
\* the block is freed and readPos is set to the saved value
FileCalculateCRC ==
    LET fits == { i \in 1..MEMPOOL_TYPES : MEM_BLOCK_SIZE <= memPool[i].memSize }
        i == CHOOSE k \in fits : \A j \in fits : k <= j
        free == (1..memPool[i].memPoolObjects) \ memPool[i].used
        block == CHOOSE k \in free : \A j \in free : k <= j
        held == [memPool EXCEPT ![i].used = @ \cup {block}]
        originalReadPos == paramFile.readPos
        run == [ crc |-> CalculateCRC(flash, paramFile),
                 file |-> CalculateCRCFile(flash, [paramFile EXCEPT !.readPos = 0],
                                           paramFile.length) ]
    IN  /\ IF free = {}
           THEN /\ poolStep' = [ op |-> "crc", buff |-> [pool |-> 0, block |-> 0],
                                 ret |-> U32(0), file |-> paramFile,
                                 before |-> [k \in 1..MEMPOOL_TYPES |-> memPool[k].used] ]
                /\ UNCHANGED <<paramFile, memPool>>
           ELSE /\ paramFile' = [run.file EXCEPT !.readPos = originalReadPos]
                /\ memPool' = [held EXCEPT ![i].used = @ \ {block}]
                /\ poolStep' = [ op |-> "crc", buff |-> [pool |-> i, block |-> block],
                                 ret |-> run.crc, file |-> paramFile,
                                 before |-> [k \in 1..MEMPOOL_TYPES |-> memPool[k].used] ]
        /\ UNCHANGED <<flash, dataStore, dsEventFlags, records, committed, filePhase,
                       stream, fileBoot, saved, saves, dsThread, dsBoot>>
        /\ UNCHANGED <<pid, measuredAngularSpeed, pwmOut, pwmOutMean, periods, driveStep>>

NextCrc ==
    \/ MemPool_Alloc /\ poolStep'.size = MEM_BLOCK_SIZE
          /\ UNCHANGED <<motionVars, hbVars, storeVars, probeVars, rosVars, taskVars>>
    \/ MemPool_Free /\ UNCHANGED <<motionVars, hbVars, storeVars, probeVars, rosVars, taskVars>>
    \/ ClientWrite /\ UNCHANGED <<motionVars, hbVars, probeVars, rosVars, deviceVars, taskVars>>
    \/ ClientRead /\ UNCHANGED <<motionVars, hbVars, probeVars, rosVars, deviceVars, taskVars>>
    \/ FileCalculateCRC /\ UNCHANGED <<motionVars, hbVars, probeVars, rosVars, taskVars>>

SpecCrc == InitChassis /\ [][NextCrc]_vars

\* C40: a call of CalculateCRC leaves readPos, writePos and length of the file
\* and the set of blocks in use in every bucket of the pool as they were at
\* entry, whether it got its scratch block or not; without the block it
\* returns 0
C40_CalculateCRCNoNetEffect ==
    [][ (poolStep'.op = "crc" /\ poolStep' # poolStep) =>
            /\ paramFile'.readPos = paramFile.readPos
            /\ paramFile'.writePos = paramFile.writePos
            /\ paramFile'.length = paramFile.length
            /\ \A k \in 1..MEMPOOL_TYPES : memPool'[k].used = memPool[k].used
            /\ poolStep'.buff.pool = 0 => poolStep'.ret = U32(0) ]_vars

\* CalculateCRC has run on a file of twelve bytes with readPos in the middle,
\* with the second block of the 2048-byte bucket as scratch because the first
\* is held by another user, and returned a checksum
C40_Witness_CrcWithSecondBlock ==
    /\ poolStep.op = "crc"
    /\ poolStep.buff = [pool |-> 5, block |-> 2]
    /\ poolStep.file.length = 12
    /\ poolStep.file.readPos = 8
    /\ paramFile.readPos = 8
    /\ poolStep.ret # U32(0)
    /\ memPool[5].used = {1}

====
